---------------------------- MODULE Spec2Model ----------------------------
(***************************************************************************)
(* A model of passgen: the deterministic password generator                *)
(* (js/generator.js), the per-site recipe registry (js/storage.js), the    *)
(* generate handler (js/ui.js) and the paired sync protocol (js/sync.js).  *)
(*                                                                         *)
(* Strings the code inspects character by character (site, counter, typed  *)
(* pairing code) are sequences of one-character strings.  Digests, key     *)
(* derivations and AEAD encryption are symbolic: a digest is a record      *)
(* holding what was hashed, a ciphertext a record holding key, iv and      *)
(* plaintext, so equal outputs mean equal inputs.                          *)
(***************************************************************************)
EXTENDS Integers, Sequences, FiniteSets, TLC

VARIABLES
  registryStore,   \* storage.js:18   site -> {site, versions}
  recipeStore,     \* storage.js:16   recipe id -> recipe record
  lastCall,        \* the last handler call: its inputs and its result
  memo,            \* an earlier generate call kept for comparison
  sendState,       \* sync.js:772    the sending device's pairing session
  receiveState,    \* sync.js:782    this device's pairing session
  runStep,         \* how far an honest paired run has got (0: none)
  recordedIds,     \* site -> the recipe ids recorded or imported since the last reset
  quickScanner,    \* sync.js:19-21  the QR scanner: overlay, stream, frame id, active flag
  browser,         \* the camera streams that are live and the animation frames requested
  calls,           \* the async calls suspended at an await, oldest first
  syncUi,          \* sync.js:17, 790  the two sync dialogs: hidden or shown, a call preparing
  quickState       \* sync.js:10    the quick transfer's passphrase, payload and stats

storeVars == <<registryStore, recipeStore>>

uiVars == <<syncUi, quickState>>

asyncVars == <<quickScanner, browser, calls, uiVars>>

(***************************************************************************)
(* Optional values (null / undefined) and key-value stores                 *)
(***************************************************************************)
None == <<>>
Some(x) == <<x>>

getItem(store, key) == IF key \in DOMAIN store THEN Some(store[key]) ELSE None

setItem(store, key, value) == (key :> value) @@ store

removeItem(store, key) == [k \in DOMAIN store \ {key} |-> store[k]]

EmptyStore == [k \in {} |-> None]

\* An array whose elements are all evaluated (the same sequence)
Array(s) == s \o <<>>

\* Body of value: the value is computed once and bound to Body's parameter
With(value, Body(_)) == Body(value)

(***************************************************************************)
(* Character strings                                                       *)
(***************************************************************************)
Digits == <<"0", "1", "2", "3", "4", "5", "6", "7", "8", "9">>
DigitSet == {Digits[i] : i \in 1..Len(Digits)}

IndexOf(seq, c) == CHOOSE i \in 1..Len(seq) : seq[i] = c

RECURSIVE TrimStart(_)
TrimStart(s) == IF s # <<>> /\ Head(s) = " " THEN TrimStart(Tail(s)) ELSE s

RECURSIVE TrimEnd(_)
TrimEnd(s) ==
  IF s # <<>> /\ s[Len(s)] = " " THEN TrimEnd(SubSeq(s, 1, Len(s) - 1)) ELSE s

Trim(s) == TrimEnd(TrimStart(s))

StartsWith(s, p) == Len(s) >= Len(p) /\ SubSeq(s, 1, Len(p)) = p
EndsWith(s, p) == Len(s) >= Len(p) /\ SubSeq(s, Len(s) - Len(p) + 1, Len(s)) = p
Includes(s, p) == \E i \in 1..Len(s) : StartsWith(SubSeq(s, i, Len(s)), p)
Drop(s, n) == SubSeq(s, n + 1, Len(s))

(***************************************************************************)
(* generator.js: normalizeCounter                                          *)
(***************************************************************************)
\* /^-?\d+$/
IsSignedInteger(raw) ==
  LET body == IF raw # <<>> /\ Head(raw) = "-" THEN Tail(raw) ELSE raw
  IN  body # <<>> /\ \A i \in 1..Len(body) : body[i] \in DigitSet

RECURSIVE StripLeadingZeros(_)
StripLeadingZeros(ds) ==
  IF Len(ds) > 1 /\ Head(ds) = "0" THEN StripLeadingZeros(Tail(ds)) ELSE ds

\* String(BigInt(raw)) for raw matching /^-?\d+$/
BigIntString(raw) ==
  LET negative == Head(raw) = "-"
      magnitude == StripLeadingZeros(IF negative THEN Tail(raw) ELSE raw)
  IN  IF negative /\ magnitude # <<"0">> THEN <<"-">> \o magnitude ELSE magnitude

normalizeCounter(counter) ==
  LET raw == Trim(counter)
  IN  IF raw = <<>> THEN <<"0">>
      ELSE IF IsSignedInteger(raw) THEN BigIntString(raw)
      ELSE raw

\* storage.js keeps its own copy of the same function
normalizeCounterValue(counter) ==
  LET raw == Trim(counter)
  IN  IF raw = <<>> THEN <<"0">>
      ELSE IF IsSignedInteger(raw) THEN BigIntString(raw)
      ELSE raw

(***************************************************************************)
(* generator.js: normalizeSite                                             *)
(***************************************************************************)
Uppers == <<"A", "B", "C", "D", "E", "F", "G", "H", "I", "J", "K", "L", "M",
            "N", "O", "P", "Q", "R", "S", "T", "U", "V", "W", "X", "Y", "Z">>
Lowers == <<"a", "b", "c", "d", "e", "f", "g", "h", "i", "j", "k", "l", "m",
            "n", "o", "p", "q", "r", "s", "t", "u", "v", "w", "x", "y", "z">>
UpperSet == {Uppers[i] : i \in 1..Len(Uppers)}
LowerSet == {Lowers[i] : i \in 1..Len(Lowers)}

ToLowerChar(c) == IF c \in UpperSet THEN Lowers[IndexOf(Uppers, c)] ELSE c
ToLowerCase(s) == Array([i \in 1..Len(s) |-> ToLowerChar(s[i])])

CountDots(s) == Cardinality({i \in 1..Len(s) : s[i] = "."})

WwwDot == <<"w", "w", "w", ".">>
DotCom == <<".", "c", "o", "m">>
SchemeMark == <<":", "/", "/">>
HttpsPrefix == <<"h", "t", "t", "p", "s", ":", "/", "/">>

\* A faulty variant of canonicalize: a final ".com" is dropped whatever the
\* number of dots
canonicalizeAnyCom(value) ==
  LET lowered == Trim(ToLowerCase(value))
      noWww == IF StartsWith(lowered, WwwDot) THEN Drop(lowered, 4) ELSE lowered
  IN  IF EndsWith(noWww, DotCom) THEN SubSeq(noWww, 1, Len(noWww) - 4) ELSE noWww

canonicalize(value) ==
  LET lowered == Trim(ToLowerCase(value))
      noWww == IF StartsWith(lowered, WwwDot) THEN Drop(lowered, 4) ELSE lowered
  IN  IF CountDots(noWww) = 1 /\ EndsWith(noWww, DotCom)
      THEN SubSeq(noWww, 1, Len(noWww) - 4)
      ELSE noWww

\* new URL(input).hostname for an input holding "://": the authority is what
\* follows the mark up to the first "/", "?" or "#", without userinfo and port;
\* None when the URL constructor throws.
RECURSIVE TakeUntil(_, _)
TakeUntil(s, stops) ==
  IF s = <<>> \/ Head(s) \in stops THEN <<>>
  ELSE <<Head(s)>> \o TakeUntil(Tail(s), stops)

RECURSIVE AfterMark(_)
AfterMark(s) ==
  IF StartsWith(s, SchemeMark) THEN Drop(s, 3) ELSE AfterMark(Tail(s))

RECURSIVE AfterLastAt(_)
AfterLastAt(s) ==
  IF \E i \in 1..Len(s) : s[i] = "@"
  THEN AfterLastAt(Drop(s, IndexOf(s, "@")))
  ELSE s

HostChars == LowerSet \cup DigitSet \cup {"-", "."}

UrlHostname(input) ==
  LET scheme == TakeUntil(input, {":"})
      authority == TakeUntil(AfterMark(input), {"/", "?", "#"})
      host == ToLowerCase(TakeUntil(AfterLastAt(authority), {":"}))
  IN  IF /\ scheme # <<>>
         /\ \A i \in 1..Len(scheme) : ToLowerChar(scheme[i]) \in LowerSet
         /\ host # <<>>
         /\ \A i \in 1..Len(host) : host[i] \in HostChars
      THEN Some(host)
      ELSE None

normalizeSite(site) ==
  LET trimmed == Trim(site)
      input == IF Includes(trimmed, SchemeMark) THEN trimmed
               ELSE HttpsPrefix \o trimmed
  IN  With(UrlHostname(input), LAMBDA hostname :
        IF hostname # None THEN canonicalize(hostname[1]) ELSE canonicalize(site))

(***************************************************************************)
(* generator.js: parameters, recipe signature and Recipe ID                *)
(***************************************************************************)
\* What Number.parseInt / Number() yield for a missing or non-numeric value.
NaN == -2147483647

DEFAULT_LENGTH == 16
MIN_LENGTH == 8
MAX_LENGTH == 50

DEFAULT_PARAMETERS ==
  [iterations |-> 100000, argonMem |-> 64, scryptN |-> 16384,
   balloonSpace |-> 64, balloonTime |-> 3, balloonDelta |-> 3]

\* parameters: undefined
MissingParameters ==
  [iterations |-> NaN, argonMem |-> NaN, scryptN |-> NaN,
   balloonSpace |-> NaN, balloonTime |-> NaN, balloonDelta |-> NaN]

Min(a, b) == IF a < b THEN a ELSE b
Max(a, b) == IF a > b THEN a ELSE b

\* A faulty variant of sanitizeParameter: no upper limit
sanitizeParameterNoMax(value, defaultValue, min, max) ==
  IF value = NaN THEN defaultValue ELSE Max(value, min)

sanitizeParameter(value, defaultValue, min, max) ==
  IF value = NaN THEN defaultValue
  ELSE LET clamped == Min(Max(value, min), max)
       IN  IF clamped <= 0 THEN defaultValue ELSE clamped

normalizeParameters(parameters) ==
  [iterations |-> sanitizeParameter(parameters.iterations,
                     DEFAULT_PARAMETERS.iterations, 1000, 10000000),
   argonMem |-> sanitizeParameter(parameters.argonMem,
                     DEFAULT_PARAMETERS.argonMem, 8, 4096),
   scryptN |-> sanitizeParameter(parameters.scryptN,
                     DEFAULT_PARAMETERS.scryptN, 1024, 1048576),
   balloonSpace |-> sanitizeParameter(parameters.balloonSpace,
                     DEFAULT_PARAMETERS.balloonSpace, 4, 4096),
   balloonTime |-> sanitizeParameter(parameters.balloonTime,
                     DEFAULT_PARAMETERS.balloonTime, 1, 24),
   balloonDelta |-> sanitizeParameter(parameters.balloonDelta,
                     DEFAULT_PARAMETERS.balloonDelta, 1, 8)]

\* A faulty variant of buildRecipeSignature: compatMode is left out
buildRecipeSignatureNoCompat(details) ==
  LET normalizedCounter == normalizeCounter(details.counter)
      normalizedParameters == normalizeParameters(details.parameters)
      parameterSignature ==
        <<normalizedParameters.iterations, normalizedParameters.argonMem,
          normalizedParameters.scryptN, normalizedParameters.balloonSpace,
          normalizedParameters.balloonTime, normalizedParameters.balloonDelta>>
  IN  <<details.algorithm, details.site, normalizedCounter, details.length,
        details.policyOn, <<>>, parameterSignature>>

\* The signature string algorithm|site|counter|length|policyOn|compatMode|k=v;...
\* as the tuple of its "|"-separated fields.
buildRecipeSignature(details) ==
  LET normalizedCounter == normalizeCounter(details.counter)
      normalizedParameters == normalizeParameters(details.parameters)
      parameterSignature ==
        <<normalizedParameters.iterations, normalizedParameters.argonMem,
          normalizedParameters.scryptN, normalizedParameters.balloonSpace,
          normalizedParameters.balloonTime, normalizedParameters.balloonDelta>>
  IN  <<details.algorithm, details.site, normalizedCounter, details.length,
        details.policyOn, details.compatMode, parameterSignature>>

\* CryptoHelper.digest(signature, 'SHA-256'): 64 hex characters
Sha256Hex(input) == [sha256 |-> input]

\* digest.slice(0, 8)
Slice8(id) == [first8 |-> id]

computeRecipeId(details) ==
  With(buildRecipeSignature(details), LAMBDA signature :
    With(Sha256Hex(signature), LAMBDA digest :
      [signature |-> signature, digest |-> digest, short |-> Slice8(digest)]))

(***************************************************************************)
(* crypto.js (CryptoHelper): the key derivations, as a deterministic       *)
(* byte-valued mixing of their arguments                                   *)
(***************************************************************************)
Symbols == <<"!", "@", "#", "$", "%", "^", "&", "*", "(", ")", "-", "_", "=",
             "+", "[", "]", "{", "}", ";", ":", ",", ".", "<", ">", "?">>
CompatSymbols == <<"!", "@", "#", "$", "%", "^", "&", "*", "(", ")", "-", "_",
                   "=", "+">>
CHARSETS == [lowers |-> Lowers, uppers |-> Uppers, digits |-> Digits,
             symbols |-> Symbols]

Alphabet == Lowers \o Uppers \o Digits \o Symbols \o <<" ", "/", "|">>

CharCode(c) == IndexOf(Alphabet, c)

RECURSIVE StrCode(_, _)
StrCode(s, acc) ==
  IF s = <<>> THEN acc
  ELSE StrCode(Tail(s), (acc * 31 + CharCode(Head(s))) % 65521)

AlgorithmNames == <<"PBKDF2-SHA256", "Argon2id", "scrypt", "BLAKE2b-512",
                    "BLAKE2s-256", "HMAC-SHA256", "Balloon-SHA256", "SHA-256",
                    "SHA-512">>

\* Names crypto.subtle.digest accepts in the default branch of generate
DigestNames == {"SHA-256", "SHA-512"}

\* combined = `${normalizedSite}|${secret}|${normalizedCounter}`
CombinedCode(combined) ==
  StrCode(combined[3], StrCode(<<"|">>,
    StrCode(combined[2], StrCode(<<"|">>, StrCode(combined[1], 7)))))

MixBytes(tag, keyCode, messageCode, cost, outBytes) ==
  LET seed == (tag * 8191 + keyCode * 127 + messageCode * 31 + (cost % 9973)) % 65521
  IN  Array([i \in 1..outBytes |-> ((seed + i) * ((seed % 251) + i * 7 + 3)) % 256])

HexDigits == <<"0", "1", "2", "3", "4", "5", "6", "7", "8", "9",
               "a", "b", "c", "d", "e", "f">>

bufferToHex(bytes) ==
  Array([i \in 1..(2 * Len(bytes)) |->
           IF i % 2 = 1 THEN HexDigits[(bytes[(i + 1) \div 2] \div 16) + 1]
           ELSE HexDigits[(bytes[i \div 2] % 16) + 1]])

hexToBytes(hex) ==
  Array([i \in 1..((Len(hex) + 1) \div 2) |->
           IF 2 * i <= Len(hex)
           THEN 16 * (IndexOf(HexDigits, hex[2 * i - 1]) - 1)
                + (IndexOf(HexDigits, hex[2 * i]) - 1)
           ELSE IndexOf(HexDigits, hex[2 * i - 1]) - 1])

\* A faulty variant of deriveHex: the number of stored recipes enters the cost
deriveHexStateful(algorithm, secret, combined, parameters) ==
  Some(bufferToHex(MixBytes(1, StrCode(secret, 11), CombinedCode(combined),
                            parameters.iterations + Cardinality(DOMAIN recipeStore), 32)))

\* The switch of generate: the hex string the selected primitive returns, None
\* when the primitive throws (a digest name crypto.subtle does not know).
deriveHex(algorithm, secret, combined, parameters) ==
  LET key == StrCode(secret, 11)
      msg == CombinedCode(combined)
  IN  CASE algorithm = "PBKDF2-SHA256" ->
             Some(bufferToHex(MixBytes(1, key, msg, parameters.iterations, 32)))
        [] algorithm = "Argon2id" ->
             Some(bufferToHex(MixBytes(2, key, msg, parameters.argonMem, 32)))
        [] algorithm = "scrypt" ->
             Some(bufferToHex(MixBytes(3, key, msg, parameters.scryptN, 32)))
        [] algorithm = "BLAKE2b-512" ->
             Some(bufferToHex(MixBytes(4, 0, msg, 0, 64)))
        [] algorithm = "BLAKE2s-256" ->
             Some(bufferToHex(MixBytes(5, 0, msg, 0, 32)))
        [] algorithm = "HMAC-SHA256" ->
             Some(bufferToHex(MixBytes(6, key, msg, 0, 32)))
        [] algorithm = "Balloon-SHA256" ->
             Some(bufferToHex(MixBytes(7, key, msg,
                    parameters.balloonSpace * 1000 + parameters.balloonTime * 10
                    + parameters.balloonDelta, 32)))
        [] algorithm = "SHA-256" -> Some(bufferToHex(MixBytes(8, 0, msg, 0, 32)))
        [] algorithm = "SHA-512" -> Some(bufferToHex(MixBytes(9, 0, msg, 0, 64)))
        [] OTHER -> None

(***************************************************************************)
(* generator.js: the generator object, mapToPassword, generate             *)
(***************************************************************************)
\* new PasswordGenerator(config)
\* A faulty variant of the constructor: an integer length is taken as it is
PasswordGeneratorUnclamped(config) ==
  [algorithm |-> config.algorithm,
   length |-> IF config.length = NaN THEN DEFAULT_LENGTH ELSE Max(1, config.length),
   policyOn |-> config.policyOn,
   compatMode |-> config.compatMode,
   parameters |-> normalizeParameters(config.parameters)]

PasswordGenerator(config) ==
  [algorithm |-> config.algorithm,
   length |-> IF config.length = NaN THEN DEFAULT_LENGTH
              ELSE Min(MAX_LENGTH, Max(MIN_LENGTH, config.length)),
   policyOn |-> config.policyOn,
   compatMode |-> config.compatMode,
   parameters |-> normalizeParameters(config.parameters)]

Categories == <<Uppers, Lowers, Digits, Symbols>>

\* categories.forEach((set, idx) => ...), idx counted from 1 here
RECURSIVE ForceCategories(_, _, _)
ForceCategories(arr, bytes, idx) ==
  IF idx > Len(Categories) THEN arr
  ELSE LET set == Categories[idx]
           pos == bytes[((idx - 1 + 4) % Len(bytes)) + 1] % Len(arr)
           ch == set[(bytes[((idx - 1) % Len(bytes)) + 1] % Len(set)) + 1]
       IN  ForceCategories([arr EXCEPT ![pos + 1] = ch], bytes, idx + 1)

mapToPassword(generator, hex) ==
  LET bytes == hexToBytes(hex)
      charset == IF generator.compatMode
                 THEN Lowers \o Uppers \o Digits \o CompatSymbols
                 ELSE Lowers \o Uppers \o Digits \o Symbols
      pwd == Array([i \in 1..generator.length |->
                      charset[(bytes[((i - 1) % Len(bytes)) + 1] % Len(charset)) + 1]])
  IN  IF bytes = <<>> THEN <<>>
      ELSE IF ~generator.policyOn THEN pwd
      ELSE ForceCategories(pwd, bytes, 1)

\* isDiverse(pwd): /[A-Z]/, /[a-z]/, /\d/ and /[^A-Za-z0-9]/ all match
isDiverse(pwd) ==
  /\ \E i \in 1..Len(pwd) : pwd[i] \in UpperSet
  /\ \E i \in 1..Len(pwd) : pwd[i] \in LowerSet
  /\ \E i \in 1..Len(pwd) : pwd[i] \in DigitSet
  /\ \E i \in 1..Len(pwd) : pwd[i] \notin UpperSet \cup LowerSet \cup DigitSet

\* A faulty variant of the reserved-character test: nothing is reserved
HasPipeNever(s) == FALSE

HasPipe(s) == \E i \in 1..Len(s) : s[i] = "|"

\* A faulty variant of generate: the secret is returned as the normalized site
generateSecretAsSite(generator, site, secret, counter) ==
  With(normalizeCounter(counter), LAMBDA normalizedCounter :
    With(deriveHex(generator.algorithm, secret,
                   <<normalizeSite(site), secret, normalizedCounter>>,
                   generator.parameters),
         LAMBDA hex :
           IF HasPipe(site) \/ HasPipe(secret) \/ hex = None
           THEN [ok |-> FALSE, password |-> <<>>, normalizedSite |-> <<>>,
                 hex |-> <<>>, counter |-> <<>>]
           ELSE [ok |-> TRUE, password |-> mapToPassword(generator, hex[1]),
                 normalizedSite |-> secret, hex |-> hex[1],
                 counter |-> normalizedCounter]))

\* generate({site, secret, counter}): ok = FALSE when it throws
generate(generator, site, secret, counter) ==
  With(normalizeSite(site), LAMBDA normalizedSite :
    With(normalizeCounter(counter), LAMBDA normalizedCounter :
      With(deriveHex(generator.algorithm, secret,
                     <<normalizedSite, secret, normalizedCounter>>,
                     generator.parameters),
           LAMBDA hex :
             IF HasPipe(site) \/ HasPipe(secret) \/ hex = None
             THEN [ok |-> FALSE, password |-> <<>>, normalizedSite |-> <<>>,
                   hex |-> <<>>, counter |-> <<>>]
             ELSE [ok |-> TRUE, password |-> mapToPassword(generator, hex[1]),
                   normalizedSite |-> normalizedSite, hex |-> hex[1],
                   counter |-> normalizedCounter])))

(***************************************************************************)
(* storage.js: recipe records                                              *)
(*                                                                         *)
(* A recipe / registry version is a record with the fields id, shortId,    *)
(* site, algorithm, length, counter, policyOn, compatMode, parameters,     *)
(* date and version.  A missing id is NoId, a missing shortId NoShort, a   *)
(* missing version number or date 0.                                       *)
(***************************************************************************)
NoId == [none |-> "id"]
NoShort == [none |-> "shortId"]

\* id.length === 64
IsDigest64(id) == DOMAIN id = {"sha256"}

\* A faulty variant of ensureShortId: a shortId that is present is kept
ensureShortIdKeep(version) ==
  [version EXCEPT !.shortId = IF @ = NoShort /\ version.id # NoId
                              THEN Slice8(version.id) ELSE @,
                  !.counter = normalizeCounterValue(version.counter)]

ensureShortId(version) ==
  LET normalizedCounter == normalizeCounterValue(version.counter)
      id == version.id
      shortId == IF id # NoId THEN Slice8(id) ELSE NoShort
      needsShort == shortId # NoShort /\ version.shortId # shortId
      needsCounter == version.counter # normalizedCounter
  IN  IF ~needsShort /\ ~needsCounter THEN version
      ELSE [version EXCEPT !.shortId = IF needsShort THEN shortId ELSE @,
                           !.counter = normalizedCounter]

ensureRecipeIdentifiers(version) ==
  With(ensureShortId(version), LAMBDA withShort :
    With(normalizeParameters(withShort.parameters), LAMBDA normalizedParameters :
      LET hasParameterChanges ==
            \/ withShort.parameters.iterations # normalizedParameters.iterations
            \/ withShort.parameters.argonMem # normalizedParameters.argonMem
            \/ withShort.parameters.scryptN # normalizedParameters.scryptN
      IN  With(IF hasParameterChanges
               THEN [withShort EXCEPT !.parameters = normalizedParameters]
               ELSE withShort,
               LAMBDA baseEntry :
                 IF IsDigest64(baseEntry.id) THEN baseEntry
                 ELSE IF baseEntry.site = <<>> \/ baseEntry.algorithm = ""
                         \/ baseEntry.length = 0 \/ baseEntry.length = NaN
                 THEN baseEntry
                 ELSE With(computeRecipeId(
                             [algorithm |-> baseEntry.algorithm, site |-> baseEntry.site,
                              counter |-> baseEntry.counter, length |-> baseEntry.length,
                              policyOn |-> baseEntry.policyOn,
                              compatMode |-> baseEntry.compatMode,
                              parameters |-> normalizedParameters]).digest,
                           LAMBDA digest :
                             [baseEntry EXCEPT !.id = digest,
                                               !.shortId = Slice8(digest)]))))

\* A database state: the registry store and the recipe store.
Db(registry, recipes) == [registry |-> registry, recipes |-> recipes]

RECURSIVE SetRecipes(_, _)
\* Promise.all(versions.map(version => recipeStore.setItem(version.id, version)))
SetRecipes(recipes, versions) ==
  IF versions = <<>> THEN recipes
  ELSE SetRecipes(setItem(recipes, Head(versions).id, Head(versions)), Tail(versions))

RECURSIVE RemoveRecipes(_, _)
RemoveRecipes(recipes, ids) ==
  IF ids = <<>> THEN recipes
  ELSE RemoveRecipes(removeItem(recipes, Head(ids)), Tail(ids))

RECURSIVE Removals(_, _, _)
\* the old ids of the versions whose id the normalization replaced
Removals(versions, normalizedVersions, i) ==
  IF i > Len(versions) THEN <<>>
  ELSE (IF /\ normalizedVersions[i].id # NoId
           /\ versions[i].id # NoId
           /\ normalizedVersions[i].id # versions[i].id
        THEN <<versions[i].id>> ELSE <<>>)
       \o Removals(versions, normalizedVersions, i + 1)

\* normalizeRegistryEntry(entry): the database afterwards and the entry returned
normalizeRegistryEntry(db, entry) ==
  IF entry = None THEN [db |-> db, entry |-> None]
  ELSE
    LET versions == entry[1].versions
        HasId(v) == v.id # NoId
    IN  With(Array([i \in 1..Len(versions) |-> ensureRecipeIdentifiers(versions[i])]),
             LAMBDA normalizedVersions :
               LET mutated == normalizedVersions # versions
                   updates == SelectSeq(normalizedVersions, HasId)
                   removals == Removals(versions, normalizedVersions, 1)
                   normalizedEntry ==
                     [site |-> entry[1].site, versions |-> normalizedVersions]
               IN  IF ~mutated THEN [db |-> db, entry |-> entry]
                   ELSE [db |-> Db(setItem(db.registry, entry[1].site, normalizedEntry),
                                   SetRecipes(RemoveRecipes(db.recipes, removals),
                                              updates)),
                         entry |-> Some(normalizedEntry)])

\* getRegistryEntry(site)
getRegistryEntry(db, site) == normalizeRegistryEntry(db, getItem(db.registry, site))

\* A faulty variant of newVersionNumber: it skips a number
newVersionNumberSkipping(versions) == Len(versions) + 2

\* registry.versions.length + 1
newVersionNumber(versions) == Len(versions) + 1

\* A faulty variant of latestVersion: the first element
latestVersionFirst(versions) == versions[1]

\* registry.versions[registry.versions.length - 1]
latestVersion(versions) == versions[Len(versions)]

\* A faulty variant of FindById: nothing is found
FindByIdNever(versions, id) == None

\* registry.versions.find(v => v.id === baseEntry.id)
FindById(versions, id) ==
  IF \E i \in 1..Len(versions) : versions[i].id = id
  THEN Some(versions[CHOOSE i \in 1..Len(versions) :
                       /\ versions[i].id = id
                       /\ \A j \in 1..(i - 1) : versions[j].id # id])
  ELSE None

\* recordRecipeUsage(recipe, existingRegistry): the database afterwards and
\* the result object returned
recordRecipeUsage(db, recipe, existingRegistry) ==
  With(ensureRecipeIdentifiers(recipe), LAMBDA baseEntry :
    LET originalId == recipe.id
        db1 == IF originalId # NoId /\ baseEntry.id # NoId /\ originalId # baseEntry.id
               THEN Db(db.registry, removeItem(db.recipes, originalId))
               ELSE db
    IN  With(normalizeRegistryEntry(db1, IF existingRegistry # None THEN existingRegistry
                                         ELSE getItem(db1.registry, baseEntry.site)),
             LAMBDA looked :
      LET db2 == looked.db
          registry == looked.entry
      IN  IF registry = None THEN
            LET versionedEntry == [baseEntry EXCEPT !.version = 1]
                newRegistry == [site |-> baseEntry.site, versions |-> <<versionedEntry>>]
            IN  [db |-> Db(setItem(db2.registry, baseEntry.site, newRegistry),
                           setItem(db2.recipes, versionedEntry.id, versionedEntry)),
                 result |-> [registryEntry |-> newRegistry,
                             matchedVersion |-> Some(versionedEntry),
                             latestVersion |-> versionedEntry,
                             wasExistingRegistry |-> FALSE,
                             isNewVersion |-> FALSE]]
          ELSE
            LET versions == registry[1].versions
                match == FindById(versions, baseEntry.id)
            IN  IF match # None THEN
                  LET stored == [baseEntry EXCEPT !.version = match[1].version]
                  IN  [db |-> Db(db2.registry, setItem(db2.recipes, stored.id, stored)),
                       result |-> [registryEntry |-> registry[1],
                                   matchedVersion |-> match,
                                   latestVersion |-> latestVersion(versions),
                                   wasExistingRegistry |-> TRUE,
                                   isNewVersion |-> FALSE]]
                ELSE
                  LET newVersion ==
                        [baseEntry EXCEPT !.version = newVersionNumber(versions)]
                      updatedRegistry == [site |-> registry[1].site,
                                          versions |-> Append(versions, newVersion)]
                  IN  [db |-> Db(setItem(db2.registry, baseEntry.site, updatedRegistry),
                                 setItem(db2.recipes, newVersion.id, newVersion)),
                       result |-> [registryEntry |-> updatedRegistry,
                                   matchedVersion |-> None,
                                   latestVersion |-> newVersion,
                                   wasExistingRegistry |-> TRUE,
                                   isNewVersion |-> TRUE]]))

(***************************************************************************)
(* storage.js: exportRegistrySnapshot and importRegistrySnapshot           *)
(***************************************************************************)
RECURSIVE InsertByVersion(_, _)
InsertByVersion(sorted, x) ==
  IF sorted = <<>> THEN <<x>>
  ELSE IF Head(sorted).version <= x.version
       THEN <<Head(sorted)>> \o InsertByVersion(Tail(sorted), x)
       ELSE <<x>> \o sorted

RECURSIVE SortByVersionDescending(_)
\* A faulty variant of SortByVersion: the highest version number comes first
SortByVersionDescending(versions) ==
  IF versions = <<>> THEN <<>>
  ELSE LET last == CHOOSE i \in 1..Len(versions) :
                     \A j \in 1..Len(versions) :
                        versions[j].version <= versions[i].version
       IN  <<versions[last]>>
           \o SortByVersionDescending(SubSeq(versions, 1, last - 1)
                                      \o SubSeq(versions, last + 1, Len(versions)))

RECURSIVE SortByVersion(_)
\* versions.sort((a, b) => a.version - b.version): a stable sort
SortByVersion(versions) ==
  IF versions = <<>> THEN <<>>
  ELSE InsertByVersion(SortByVersion(SubSeq(versions, 1, Len(versions) - 1)),
                       versions[Len(versions)])

RECURSIVE StrLess(_, _)
\* a.localeCompare(b) < 0 on the model's alphabet
StrLess(a, b) ==
  IF b = <<>> THEN FALSE
  ELSE IF a = <<>> THEN TRUE
  ELSE IF Head(a) = Head(b) THEN StrLess(Tail(a), Tail(b))
  ELSE CharCode(Head(a)) < CharCode(Head(b))

RECURSIVE InsertBySite(_, _)
InsertBySite(sorted, x) ==
  IF sorted = <<>> THEN <<x>>
  ELSE IF ~StrLess(x.site, Head(sorted).site)
       THEN <<Head(sorted)>> \o InsertBySite(Tail(sorted), x)
       ELSE <<x>> \o sorted

RECURSIVE SortBySite(_)
\* entries.sort((a, b) => a.site.localeCompare(b.site))
SortBySite(entries) ==
  IF entries = <<>> THEN <<>>
  ELSE InsertBySite(SortBySite(SubSeq(entries, 1, Len(entries) - 1)),
                    entries[Len(entries)])

RECURSIVE KeysOf(_)
\* registryStore.keys(), in key order
KeysOf(keys) ==
  IF keys = {} THEN <<>>
  ELSE LET first == CHOOSE k \in keys : \A other \in keys \ {k} : StrLess(k, other)
       IN  <<first>> \o KeysOf(keys \ {first})

\* the body of the key loop of exportRegistrySnapshot for one stored entry
SanitizedVersions(entry, site, now) ==
  LET HasId(v) == v.id # NoId
      kept == SelectSeq(entry.versions, HasId)
  IN  SortByVersion(Array(
        [index \in 1..Len(kept) |->
           [id |-> kept[index].id,
            shortId |-> IF kept[index].shortId # NoShort THEN kept[index].shortId
                        ELSE Slice8(kept[index].id),
            site |-> site,
            algorithm |-> kept[index].algorithm,
            length |-> kept[index].length,
            counter |-> kept[index].counter,
            policyOn |-> kept[index].policyOn,
            compatMode |-> kept[index].compatMode,
            parameters |-> normalizeParameters(kept[index].parameters),
            date |-> IF kept[index].date # 0 THEN kept[index].date ELSE now,
            version |-> IF kept[index].version # 0 THEN kept[index].version
                        ELSE index]]))

RECURSIVE ExportLoop(_, _, _, _)
ExportLoop(db, keys, entries, now) ==
  IF keys = <<>> THEN [db |-> db, entries |-> entries]
  ELSE
    With(normalizeRegistryEntry(db, getItem(db.registry, Head(keys))), LAMBDA looked :
      LET site == IF looked.entry = None THEN <<>> ELSE Trim(looked.entry[1].site)
      IN  With(IF site = <<>> THEN <<>>
               ELSE SanitizedVersions(looked.entry[1], site, now),
               LAMBDA sanitizedVersions :
                 ExportLoop(looked.db, Tail(keys),
                            IF sanitizedVersions = <<>> THEN entries
                            ELSE Append(entries, [site |-> site,
                                                  versions |-> sanitizedVersions]),
                            now)))

\* exportRegistrySnapshot(): the database afterwards and the snapshot
exportRegistrySnapshot(db, now) ==
  With(ExportLoop(db, KeysOf(DOMAIN db.registry), <<>>, now), LAMBDA looped :
    With(SortBySite(looped.entries), LAMBDA entries :
      [db |-> looped.db,
       snapshot |-> [exportedAt |-> now, sites |-> Len(entries), entries |-> entries]]))

RECURSIVE PrepareIncoming(_, _, _)
\* the first inner loop of importRegistrySnapshot
PrepareIncoming(site, versions, now) ==
  IF versions = <<>> THEN <<>>
  ELSE
    LET version == Head(versions)
    IN  With(ensureRecipeIdentifiers(
               [id |-> version.id,
                shortId |-> IF version.shortId # NoShort THEN version.shortId
                            ELSE Slice8(version.id),
                site |-> site,
                algorithm |-> version.algorithm,
                length |-> version.length,
                counter |-> version.counter,
                policyOn |-> version.policyOn,
                compatMode |-> version.compatMode,
                parameters |-> normalizeParameters(version.parameters),
                date |-> IF version.date # 0 THEN version.date ELSE now,
                version |-> version.version]),
             LAMBDA prepared :
               (IF version.id # NoId /\ prepared.id # NoId THEN <<prepared>> ELSE <<>>)
               \o PrepareIncoming(site, Tail(versions), now))

\* A faulty variant of Reindex: it numbers the list back to front
ReindexReversed(versions) ==
  Array([index \in 1..Len(versions) |->
           ensureRecipeIdentifiers(
             [versions[Len(versions) + 1 - index] EXCEPT !.version = index])])

\* for (index...) { ensureRecipeIdentifiers({ ...versions[index], version: index + 1 }) }
Reindex(versions) ==
  Array([index \in 1..Len(versions) |->
           ensureRecipeIdentifiers([versions[index] EXCEPT !.version = index])])

\* A faulty variant of alreadyExists: no version is ever recognised
alreadyExistsNever(merged, version) == FALSE

\* merged.some(existingVersion => existingVersion.id === version.id)
alreadyExists(merged, version) == \E i \in 1..Len(merged) : merged[i].id = version.id

\* version.version && version.version > 0 ? version.version : merged.length + 1
nextVersionNumber(merged, version) ==
  IF version.version > 0 THEN version.version ELSE Len(merged) + 1

RECURSIVE MergeIncoming(_, _, _)
\* the loop over incomingVersions when the site already has an entry
MergeIncoming(merged, incoming, imported) ==
  IF incoming = <<>> THEN [merged |-> merged, imported |-> imported]
  ELSE
    LET version == Head(incoming)
        prepared == ensureRecipeIdentifiers(
                      [version EXCEPT !.version = nextVersionNumber(merged, version)])
    IN  IF alreadyExists(merged, version) THEN MergeIncoming(merged, Tail(incoming), imported)
        ELSE MergeIncoming(Append(merged, prepared), Tail(incoming), imported + 1)

\* one iteration of the entry loop of importRegistrySnapshot
ImportEntry(acc, entry, now) ==
  LET site == Trim(entry.site)
      HasId(v) == v.id # NoId
      Stored(db, versions, imported) ==
        [db |-> Db(setItem(db.registry, site, [site |-> site, versions |-> versions]),
                   SetRecipes(db.recipes, versions)),
         importedSites |-> acc.importedSites + 1,
         importedVersions |-> acc.importedVersions + imported]
  IN  With(PrepareIncoming(site, entry.versions, now), LAMBDA incomingVersions :
        IF site = <<>> \/ incomingVersions = <<>> THEN acc
        ELSE
          With(normalizeRegistryEntry(acc.db, getItem(acc.db.registry, site)),
               LAMBDA looked :
            IF looked.entry = None THEN
              With(SelectSeq(Reindex(SortByVersion(incomingVersions)), HasId),
                   LAMBDA normalized : Stored(looked.db, normalized, Len(normalized)))
            ELSE
              With(MergeIncoming(looked.entry[1].versions, incomingVersions, 0),
                   LAMBDA merge :
                IF ~(merge.imported > 0)
                THEN [acc EXCEPT !.db = looked.db]
                ELSE With(Reindex(SortByVersion(merge.merged)),
                          LAMBDA reindexed :
                            Stored(looked.db, reindexed, merge.imported)))))

RECURSIVE ImportLoop(_, _, _)
ImportLoop(acc, entries, now) ==
  IF entries = <<>> THEN acc
  ELSE ImportLoop(ImportEntry(acc, Head(entries), now), Tail(entries), now)

\* importRegistrySnapshot(snapshot): the database afterwards and the counts
importRegistrySnapshot(db, snapshot, now) ==
  ImportLoop([db |-> db, importedSites |-> 0, importedVersions |-> 0],
             snapshot.entries, now)

(***************************************************************************)
(* storage.js: fetchRecipes, importRecipes and the clearing operations     *)
(***************************************************************************)
\* A faulty variant of normalizeRecipeEntry: the record under the old key stays
normalizeRecipeEntryKeepKey(db, entry, key) ==
  With(ensureRecipeIdentifiers(entry), LAMBDA normalized :
    IF normalized.id = NoId THEN db
    ELSE Db(db.registry, setItem(db.recipes, normalized.id, normalized)))

\* normalizeRecipeEntry(entry, key)
normalizeRecipeEntry(db, entry, key) ==
  With(ensureRecipeIdentifiers(entry), LAMBDA normalized :
    LET removed == IF key # normalized.id THEN removeItem(db.recipes, key)
                   ELSE db.recipes
    IN  IF normalized.id = NoId THEN db
        ELSE Db(db.registry, setItem(removed, normalized.id, normalized)))

RECURSIVE FetchLoop(_, _)
FetchLoop(db, keys) ==
  IF keys = {} THEN db
  ELSE LET key == CHOOSE k \in keys : TRUE
       IN  FetchLoop(IF key \in DOMAIN db.recipes
                     THEN normalizeRecipeEntry(db, db.recipes[key], key)
                     ELSE db,
                     keys \ {key})

\* fetchRecipes(): the database after its normalizing pass
fetchRecipes(db) == FetchLoop(db, DOMAIN db.recipes)

RECURSIVE importRecipes(_, _)
\* importRecipes(recipes): recordRecipeUsage(recipe) for every usable record
importRecipes(db, recipes) ==
  IF recipes = <<>> THEN db
  ELSE LET recipe == Head(recipes)
       IN  importRecipes(IF recipe.id = NoId \/ recipe.site = <<>> THEN db
                         ELSE recordRecipeUsage(db, recipe, None).db,
                         Tail(recipes))

(***************************************************************************)
(* ui.js: handleGenerate                                                   *)
(***************************************************************************)
MIN_PASSWORD_LENGTH == 8
MAX_PASSWORD_LENGTH == 50

\* getSecretStrengthError(secret) === ''
SecretIsStrong(secret) ==
  /\ Len(secret) >= 8
  /\ \E i \in 1..Len(secret) : secret[i] \in LowerSet
  /\ \E i \in 1..Len(secret) : secret[i] \in UpperSet
  /\ \E i \in 1..Len(secret) : secret[i] \in DigitSet
  /\ \E i \in 1..Len(secret) :
       secret[i] \notin LowerSet \cup UpperSet \cup DigitSet \cup {"_", " "}

NoDisplay == [password |-> <<>>, recipeInfo |-> None, error |-> FALSE]
ErrorDisplay == [password |-> <<>>, recipeInfo |-> None, error |-> TRUE]

\* The whole handler on the form's fields at clock reading now: the database
\* afterwards and a record of the call (what it displays included).
handleGenerate(db, form, now) ==
  LET site == Trim(form.site)
      secret == Trim(form.secret)
      counterRaw == IF Trim(form.counter) = <<>> THEN <<"0">> ELSE Trim(form.counter)
      length == form.length
      rejected == [db |-> db,
                   call |-> [op |-> "generate", ok |-> FALSE, form |-> form,
                             display |-> ErrorDisplay]]
  IN  IF site = <<>> \/ secret = <<>> THEN rejected
      ELSE IF ~SecretIsStrong(secret) THEN rejected
      ELSE IF length = NaN \/ length < MIN_PASSWORD_LENGTH \/ length > MAX_PASSWORD_LENGTH
      THEN rejected
      ELSE
        With(normalizeCounter(counterRaw), LAMBDA normalizedCounter :
        With(PasswordGenerator(
               [algorithm |-> form.algorithm, length |-> length,
                policyOn |-> form.policyOn, compatMode |-> form.compatMode,
                parameters |-> [iterations |-> form.iterations,
                                argonMem |-> form.argonMem,
                                scryptN |-> form.scryptN, balloonSpace |-> NaN,
                                balloonTime |-> NaN, balloonDelta |-> NaN]]),
             LAMBDA generator :
        With(generate(generator, site, secret, normalizedCounter), LAMBDA generated :
          IF ~generated.ok THEN rejected
          ELSE
            With(computeRecipeId(
                   [algorithm |-> form.algorithm, site |-> generated.normalizedSite,
                    counter |-> normalizedCounter, length |-> generator.length,
                    policyOn |-> form.policyOn, compatMode |-> form.compatMode,
                    parameters |-> generator.parameters]),
                 LAMBDA recipeId :
            With([id |-> recipeId.digest, shortId |-> recipeId.short,
                  site |-> generated.normalizedSite, algorithm |-> form.algorithm,
                  length |-> generator.length, counter |-> normalizedCounter,
                  policyOn |-> form.policyOn, compatMode |-> form.compatMode,
                  date |-> now, parameters |-> generator.parameters, version |-> 0],
                 LAMBDA recipeEntry :
            With(getRegistryEntry(db, generated.normalizedSite), LAMBDA looked :
            With(recordRecipeUsage(looked.db, recipeEntry, looked.entry),
                 LAMBDA recorded :
              [db |-> fetchRecipes(recorded.db),
               call |-> [op |-> "generate", ok |-> TRUE, form |-> form,
                         display |-> [password |-> generated.password,
                                      recipeInfo |-> Some(recipeId.short),
                                      error |-> FALSE],
                         password |-> generated.password,
                         recipeId |-> recipeId.digest,
                         recipe |-> recipeEntry,
                         before |-> getItem(db.registry, generated.normalizedSite),
                         result |-> recorded.result]])))))))


(***************************************************************************)
(* sync.js: texts, envelopes and their encoding                            *)
(*                                                                         *)
(* A payload text is a record of its prefix and its encoded part; an       *)
(* encoded part records how it was encoded and of what, JSON text records  *)
(* the value it serialises.  A missing envelope field is None.             *)
(***************************************************************************)
SYNC_PREFIX == "PGENSYNC-"
LEGACY_SYNC_PREFIXES == {"PGENSYNC:", "passgen-sync:"}
QUICK_PREFIX == "PGENQUICK-"
PAYLOAD_VERSION == 2
QUICK_KDF_ITERATIONS == 200000
QUICK_MIN_PASSPHRASE_LENGTH == 16

\* envelope.name, undefined when the envelope has no such field
Field(envelope, name) == IF name \in DOMAIN envelope THEN Some(envelope[name]) ELSE None

\* The empty string read from an input element
EmptyText == [prefix |-> "", encoded |-> [empty |-> TRUE]]

JSONstringify(value) == [json |-> value]

\* JSON.parse(text): None when it throws
JSONparse(text) == IF "json" \in DOMAIN text THEN Some(text.json) ELSE None

\* encodeText(value): base32 of the UTF-8 bytes
encodeText(value) == [base32 |-> value]

\* decodeText(value): base32 first, the legacy base64 form otherwise; None when
\* both throw
decodeText(value) ==
  IF "base32" \in DOMAIN value THEN Some(value.base32)
  ELSE IF "base64" \in DOMAIN value THEN Some(value.base64)
  ELSE None

toBase64(bytes) == [b64 |-> bytes]
fromBase64(value) == value.b64

encodeEnvelope(envelope) ==
  [prefix |-> SYNC_PREFIX, encoded |-> encodeText(JSONstringify(envelope))]

\* decodeEnvelope(payload): the envelope, or the message of the error thrown
decodeEnvelope(payload) ==
  LET knownPrefixes == {SYNC_PREFIX} \cup LEGACY_SYNC_PREFIXES
      json == decodeText(payload.encoded)
      envelope == IF json = None THEN None ELSE JSONparse(json[1])
  IN  IF payload.prefix \notin knownPrefixes
      THEN [error |-> "Invalid payload format. Expecting QR data from PasswordGen.",
            envelope |-> None]
      ELSE IF json = None
      THEN [error |-> "Payload data is corrupted or incomplete.", envelope |-> None]
      ELSE IF envelope = None
      THEN [error |-> "Failed to parse payload JSON.", envelope |-> None]
      ELSE IF Field(envelope[1], "v") # Some(PAYLOAD_VERSION)
      THEN [error |-> "Unsupported payload version.", envelope |-> None]
      ELSE [error |-> "", envelope |-> envelope]

(***************************************************************************)
(* sync.js: key agreement, key derivation and authenticated encryption     *)
(*                                                                         *)
(* ECDH is scalar multiplication in a small group, so that both sides      *)
(* compute the same secret because multiplication commutes.  HKDF output   *)
(* is the record of its inputs; AES-GCM decryption succeeds exactly under  *)
(* the key and iv of the encryption.                                       *)
(***************************************************************************)
GroupOrder == 251
Generator == 2

\* crypto.subtle.generateKey with the private scalar drawn
generateKey(scalar) ==
  [privateKey |-> [scalar |-> scalar],
   publicKey |-> [point |-> (scalar * Generator) % GroupOrder]]

\* crypto.subtle.exportKey('raw', publicKey)
exportKey(publicKey) == [raw |-> publicKey.point]

\* importRawPublicKey(bytes): None when importKey rejects the bytes
importRawPublicKey(bytes) ==
  IF "raw" \in DOMAIN bytes /\ bytes.raw \in 1..(GroupOrder - 1)
  THEN Some([point |-> bytes.raw])
  ELSE None

\* A faulty variant of deriveSharedSecret: it pairs the private key with its
\* own public point instead of the peer's
deriveSharedSecretOwnPoint(privateKey, publicKey) ==
  [bits |-> (privateKey.scalar * privateKey.scalar * Generator) % GroupOrder]

deriveSharedSecret(privateKey, publicKey) ==
  [bits |-> (privateKey.scalar * publicKey.point) % GroupOrder]

deriveKeyMaterial(secretBytes, saltBytes, info, length) ==
  [hkdf |-> secretBytes, salt |-> saltBytes, info |-> info, length |-> length]

deriveAesKey(secretBytes, saltBytes) ==
  [aes |-> deriveKeyMaterial(secretBytes, saltBytes, "passgen:sync:aes", 32)]

deriveProof(secretBytes, sessionId) ==
  toBase64(deriveKeyMaterial(secretBytes, <<"passgen:sync:proof:", sessionId>>,
                             "passgen:sync:proof", 32))

\* The bytes of a derived key material
MaterialBytes(material) ==
  LET seed == (material.hkdf.bits * 127 + StrCode(material.salt[2], 7) * 31 + 13) % 65521
  IN  Array([i \in 1..material.length |->
               ((seed + i) * ((seed % 251) + i * 7 + 3)) % 256])

RECURSIVE Mod100000000(_, _)
\* value = (value << 8n) | byte over the bytes, taken modulo 100000000
Mod100000000(bytes, value) ==
  IF bytes = <<>> THEN value
  ELSE Mod100000000(Tail(bytes),
         (((((value * 16) % 100000000) * 16) % 100000000) + Head(bytes)) % 100000000)

RECURSIVE NumberToString(_)
NumberToString(n) ==
  IF n < 10 THEN <<Digits[n + 1]>>
  ELSE Append(NumberToString(n \div 10), Digits[(n % 10) + 1])

\* A faulty variant of PadStart: nothing is added
PadStartNone(s, width, ch) == s

RECURSIVE PadStart(_, _, _)
PadStart(s, width, ch) == IF Len(s) >= width THEN s ELSE PadStart(<<ch>> \o s, width, ch)

\* The tail of derivePairingCode: the code of the four derived bytes
PairingCodeOf(bytes) == PadStart(NumberToString(Mod100000000(bytes, 0)), 8, "0")

derivePairingCode(secretBytes, sessionId) ==
  PairingCodeOf(MaterialBytes(deriveKeyMaterial(secretBytes,
                                                <<"passgen:sync:code:", sessionId>>,
                                                "passgen:sync:code", 4)))

\* crypto.subtle.digest('SHA-256', plaintext)
SubtleDigest(plaintext) == [sha256of |-> plaintext]

AesGcmEncrypt(aesKey, iv, plaintext) == [aead |-> aesKey, iv |-> iv, plaintext |-> plaintext]

\* crypto.subtle.decrypt: None when authentication fails
AesGcmDecrypt(aesKey, iv, ciphertext) ==
  IF "aead" \in DOMAIN ciphertext /\ ciphertext.aead = aesKey /\ ciphertext.iv = iv
  THEN Some(ciphertext.plaintext)
  ELSE None

\* encryptSnapshot(snapshot, aesKey) with the random iv drawn
encryptSnapshot(snapshot, aesKey, iv) ==
  LET plaintext == JSONstringify(snapshot)
  IN  [ciphertext |-> AesGcmEncrypt(aesKey, iv, plaintext), iv |-> iv,
       digest |-> SubtleDigest(plaintext)]

compareBytes(a, b) == a = b

\* decryptSnapshot({iv, ciphertext, digest}, aesKey): the snapshot, or the
\* message of the error thrown; plaintext is what decryption produced
decryptSnapshot(payload, aesKey) ==
  LET decrypted == AesGcmDecrypt(aesKey, payload.iv, payload.ciphertext)
      snapshot == IF decrypted = None THEN None ELSE JSONparse(decrypted[1])
  IN  IF decrypted = None
      THEN [error |-> "Unable to decrypt payload.", snapshot |-> None, plaintext |-> None]
      ELSE IF payload.digest # None
              /\ ~compareBytes(payload.digest[1], SubtleDigest(decrypted[1]))
      THEN [error |-> "Integrity check failed.", snapshot |-> None, plaintext |-> decrypted]
      ELSE IF snapshot = None
      THEN [error |-> "Unexpected token in JSON", snapshot |-> None, plaintext |-> decrypted]
      ELSE [error |-> "", snapshot |-> snapshot, plaintext |-> decrypted]

(***************************************************************************)
(* sync.js: the paired scheme                                              *)
(***************************************************************************)
\* resetSendState()
resetSendState ==
  [keyPair |-> None, sessionId |-> <<>>, snapshot |-> None, stats |-> None,
   code |-> <<>>, offerPayload |-> EmptyText, finalPayload |-> EmptyText]

\* resetQuickState()
resetQuickState == [passphrase |-> <<>>, payload |-> EmptyText, stats |-> None]

\* resetReceiveState()
resetReceiveState ==
  [keyPair |-> None, sessionId |-> <<>>, secretBytes |-> None, code |-> <<>>,
   responsePayload |-> EmptyText]

RECURSIVE SumVersions(_)
SumVersions(entries) ==
  IF entries = <<>> THEN 0 ELSE Len(Head(entries).versions) + SumVersions(Tail(entries))

\* countVersions(stats)
countVersions(stats) == IF stats = None THEN 0 ELSE SumVersions(stats[1].entries)

\* prepareSendOffer() on the sending device: snapshot is what its
\* exportRegistrySnapshot() returned, scalar and sessionId are the random draws
prepareSendOffer(snapshot, scalar, sessionId) ==
  LET keyPair == generateKey(scalar)
      publicKeyBytes == exportKey(keyPair.publicKey)
      offerEnvelope ==
        [v |-> PAYLOAD_VERSION, t |-> "offer", session |-> sessionId,
         senderPub |-> toBase64(publicKeyBytes),
         meta |-> [exportedAt |-> snapshot.exportedAt, sites |-> snapshot.sites,
                   versions |-> countVersions(Some(snapshot))]]
  IN  [keyPair |-> Some(keyPair), sessionId |-> sessionId, snapshot |-> Some(snapshot),
       stats |-> Some(snapshot), code |-> <<>>,
       offerPayload |-> encodeEnvelope(offerEnvelope), finalPayload |-> EmptyText]

\* handleProcessResponse() on the sending device: raw is the pasted response,
\* keySalt and iv are the random draws
handleProcessResponse(send, raw, keySalt, iv) ==
  LET decoded == decodeEnvelope(raw)
      envelope == decoded.envelope[1]
      receiverKey == importRawPublicKey(fromBase64(envelope.receiverPub))
      secretBytes == deriveSharedSecret(send.keyPair[1].privateKey, receiverKey[1])
      proof == deriveProof(secretBytes, send.sessionId)
      code == derivePairingCode(secretBytes, send.sessionId)
      aesKey == deriveAesKey(secretBytes, keySalt)
      encrypted == encryptSnapshot(send.snapshot[1], aesKey, iv)
      dataEnvelope ==
        [v |-> PAYLOAD_VERSION, t |-> "data", session |-> send.sessionId,
         iv |-> toBase64(encrypted.iv), c |-> toBase64(encrypted.ciphertext),
         h |-> toBase64(encrypted.digest), salt |-> toBase64(keySalt), auth |-> code,
         meta |-> [exportedAt |-> send.snapshot[1].exportedAt,
                   sites |-> IF send.stats = None THEN 0 ELSE send.stats[1].sites,
                   versions |-> countVersions(send.stats)]]
      Failed(message) == [send |-> send, status |-> message]
  IN  IF raw = EmptyText THEN Failed("Paste the receiver's response payload first.")
      ELSE IF send.keyPair = None \/ send.sessionId = <<>> \/ send.snapshot = None
      THEN Failed("Offer session missing. Regenerate and start again.")
      ELSE IF decoded.error # "" THEN Failed(decoded.error)
      ELSE IF Field(envelope, "t") # Some("response")
      THEN Failed("Payload is not a response envelope.")
      ELSE IF Field(envelope, "session") # Some(send.sessionId)
      THEN Failed("Response session does not match the active offer.")
      ELSE IF Field(envelope, "receiverPub") = None
      THEN Failed("Response missing receiver public key.")
      ELSE IF receiverKey = None THEN Failed("Failed to process response")
      ELSE IF Field(envelope, "proof") # Some(proof)
      THEN Failed("Response integrity check failed. Ask the receiver to regenerate.")
      ELSE [send |-> [send EXCEPT !.finalPayload = encodeEnvelope(dataEnvelope),
                                  !.code = code],
            status |-> "Ready to share encrypted bundle."]

\* handleProcessOffer() on this device: raw is the pasted offer, scalar the
\* random draw of generateKey
handleProcessOffer(receive, raw, scalar) ==
  LET decoded == decodeEnvelope(raw)
      envelope == decoded.envelope[1]
      senderKey == importRawPublicKey(fromBase64(envelope.senderPub))
      keyPair == generateKey(scalar)
      secretBytes == deriveSharedSecret(keyPair.privateKey, senderKey[1])
      proof == deriveProof(secretBytes, envelope.session)
      code == derivePairingCode(secretBytes, envelope.session)
      receiverPubBytes == exportKey(keyPair.publicKey)
      responseEnvelope ==
        [v |-> PAYLOAD_VERSION, t |-> "response", session |-> envelope.session,
         receiverPub |-> toBase64(receiverPubBytes), proof |-> proof]
      Failed(message) == [receive |-> receive, status |-> message]
  IN  IF raw = EmptyText THEN Failed("Paste the offer payload from the sender.")
      ELSE IF decoded.error # "" THEN Failed(decoded.error)
      ELSE IF Field(envelope, "t") # Some("offer")
      THEN Failed("Payload is not a pairing offer.")
      ELSE IF Field(envelope, "senderPub") = None
      THEN Failed("Offer missing sender public key.")
      ELSE IF senderKey = None
      THEN [receive |-> resetReceiveState, status |-> "Failed to process offer"]
      ELSE [receive |-> [keyPair |-> Some(keyPair), sessionId |-> envelope.session,
                         secretBytes |-> Some(secretBytes), code |-> code,
                         responsePayload |-> encodeEnvelope(responseEnvelope)],
            status |-> "Share this response with the sender, then wait for the final payload."]

\* confirmCodeInput.value.replace(/\s+/g, '')
StripWhitespace(s) == LET NotSpace(c) == c # " " IN SelectSeq(s, NotSpace)

\* /^\d{8}$/.test(typedCode)
IsEightDigits(s) == Len(s) = 8 /\ \A i \in 1..Len(s) : s[i] \in DigitSet

\* A faulty variant of codeChecks: the envelope's auth field is not compared
codeChecksTypedOnly(typedCode, expectedCode, auth) ==
  IF typedCode = <<>> THEN "Enter the pairing code you heard from the sender."
  ELSE IF ~IsEightDigits(typedCode)
  THEN "Pairing codes are 8 digits. Double-check and try again."
  ELSE IF typedCode # expectedCode
  THEN "The entered pairing code does not match this session."
  ELSE ""

\* The checks of handleImport on the typed code and the envelope's auth field:
\* the message of the first one that fails, "" when all pass
codeChecks(typedCode, expectedCode, auth) ==
  IF typedCode = <<>> THEN "Enter the pairing code you heard from the sender."
  ELSE IF ~IsEightDigits(typedCode)
  THEN "Pairing codes are 8 digits. Double-check and try again."
  ELSE IF typedCode # expectedCode
  THEN "The entered pairing code does not match this session."
  ELSE IF auth # Some(expectedCode)
  THEN "Received payload failed the pairing code check. Rejecting payload."
  ELSE ""

\* handleImport() up to the decrypted snapshot: the message of the first check
\* that fails ("" when all pass), the snapshot, and what decryption produced
importChecks(receive, rawPayload, typed) ==
  LET decoded == decodeEnvelope(rawPayload)
      envelope == decoded.envelope[1]
      expectedCode == derivePairingCode(receive.secretBytes[1], receive.sessionId)
      typedCode == StripWhitespace(typed)
      codeError == codeChecks(typedCode, expectedCode, Field(envelope, "auth"))
      aesKey == deriveAesKey(receive.secretBytes[1], fromBase64(envelope.salt))
      opened == decryptSnapshot(
        [iv |-> fromBase64(envelope.iv), ciphertext |-> fromBase64(envelope.c),
         digest |-> IF Field(envelope, "h") # None THEN Some(fromBase64(envelope.h))
                    ELSE None],
        aesKey)
      Failed(message) == [error |-> message, snapshot |-> None, plaintext |-> None]
  IN  IF rawPayload = EmptyText THEN Failed("Paste the final payload from the sender.")
      ELSE IF receive.sessionId = <<>> \/ receive.secretBytes = None
      THEN Failed("Pairing not ready. Process the offer first.")
      ELSE IF decoded.error # "" THEN Failed(decoded.error)
      ELSE IF Field(envelope, "t") # Some("data")
      THEN Failed("Payload is not the final data bundle.")
      ELSE IF Field(envelope, "session") # Some(receive.sessionId)
      THEN Failed("Session mismatch. Ensure you are importing the matching payload.")
      ELSE IF Field(envelope, "iv") = None \/ Field(envelope, "c") = None
      THEN Failed("Payload missing encryption fields.")
      ELSE IF Field(envelope, "salt") = None
      THEN Failed("Payload missing key derivation salt.")
      ELSE IF codeError # "" THEN Failed(codeError)
      ELSE opened

\* A faulty variant of finishImport: whatever plaintext decryption produced is
\* imported, also when a check failed
finishImportBestEffort(db, checked, now) ==
  IF checked.plaintext = None
  THEN [db |-> db, status |-> checked.error, snapshot |-> None,
        importedSites |-> 0, importedVersions |-> 0]
  ELSE With(JSONparse(checked.plaintext[1]), LAMBDA parsed :
         IF parsed = None
         THEN [db |-> db, status |-> checked.error, snapshot |-> None,
               importedSites |-> 0, importedVersions |-> 0]
         ELSE With(importRegistrySnapshot(db, parsed[1], now), LAMBDA out :
                [db |-> fetchRecipes(out.db),
                 status |-> IF checked.error # "" THEN checked.error ELSE "Imported",
                 snapshot |-> IF checked.error # "" THEN None ELSE parsed,
                 importedSites |-> out.importedSites,
                 importedVersions |-> out.importedVersions]))

\* The tail of handleImport and of handleQuickImport: importRegistrySnapshot and
\* refreshHistoryList when the checks passed, the error status otherwise
finishImport(db, checked, now) ==
  IF checked.error # ""
  THEN [db |-> db, status |-> checked.error, snapshot |-> None,
        importedSites |-> 0, importedVersions |-> 0]
  ELSE With(importRegistrySnapshot(db, checked.snapshot[1], now), LAMBDA out :
         [db |-> fetchRecipes(out.db), status |-> "Imported",
          snapshot |-> checked.snapshot,
          importedSites |-> out.importedSites,
          importedVersions |-> out.importedVersions])

\* handleImport(): rawPayload and typed are the values of the two inputs
handleImport(db, receive, rawPayload, typed, now) ==
  finishImport(db, importChecks(receive, rawPayload, typed), now)

(***************************************************************************)
(* sync.js: the quick (passphrase) scheme                                  *)
(***************************************************************************)
ToUpperChar(c) == IF c \in LowerSet THEN Uppers[IndexOf(Lowers, c)] ELSE c

\* (value || '').replace(/[^0-9A-Z]/gi, '').toUpperCase()
compactQuickPassphrase(value) ==
  LET IsAlnum(c) == c \in UpperSet \cup LowerSet \cup DigitSet
      kept == SelectSeq(value, IsAlnum)
  IN  Array([i \in 1..Len(kept) |-> ToUpperChar(kept[i])])

\* ensureQuickPassphrase(value): None when it throws
ensureQuickPassphrase(value) ==
  LET compact == compactQuickPassphrase(value)
  IN  IF Len(compact) < QUICK_MIN_PASSPHRASE_LENGTH THEN None ELSE Some(compact)

\* A faulty variant of deriveQuickAesKey: the key does not depend on the
\* passphrase
deriveQuickAesKeyFixed(passphrase, saltBytes, iterations) ==
  [pbkdf2 |-> <<>>, salt |-> saltBytes, iterations |-> iterations]

deriveQuickAesKey(passphrase, saltBytes, iterations) ==
  [pbkdf2 |-> passphrase, salt |-> saltBytes, iterations |-> iterations]

\* encodeQuickPayload(snapshot, passphrase) with the random salt and iv drawn
encodeQuickPayload(snapshot, passphrase, salt, iv) ==
  LET aesKey == deriveQuickAesKey(passphrase, salt, QUICK_KDF_ITERATIONS)
      plaintext == JSONstringify(snapshot)
      envelope == [v |-> PAYLOAD_VERSION, t |-> "quick", iter |-> QUICK_KDF_ITERATIONS,
                   salt |-> toBase64(salt), iv |-> toBase64(iv),
                   c |-> toBase64(AesGcmEncrypt(aesKey, iv, plaintext))]
  IN  [prefix |-> QUICK_PREFIX, encoded |-> encodeText(JSONstringify(envelope))]

\* decodeQuickPayload(payload): the envelope, or the message of the error thrown
decodeQuickPayload(payload) ==
  LET json == decodeText(payload.encoded)
      envelope == IF json = None THEN None ELSE JSONparse(json[1])
  IN  IF payload.prefix # QUICK_PREFIX
      THEN [error |-> "Payload is not a quick transfer bundle.", envelope |-> None]
      ELSE IF json = None
      THEN [error |-> "Payload data is corrupted or incomplete.", envelope |-> None]
      ELSE IF envelope = None
      THEN [error |-> "Failed to parse payload JSON.", envelope |-> None]
      ELSE IF Field(envelope[1], "v") # Some(PAYLOAD_VERSION)
              \/ Field(envelope[1], "t") # Some("quick")
      THEN [error |-> "Payload is not a quick transfer bundle.", envelope |-> None]
      ELSE [error |-> "", envelope |-> envelope]

\* decryptQuickPayload(envelope, passphrase)
decryptQuickPayload(envelope, passphrase) ==
  LET iterations == IF Field(envelope, "iter") # None /\ envelope.iter > 0
                    THEN envelope.iter ELSE QUICK_KDF_ITERATIONS
      aesKey == deriveQuickAesKey(passphrase, fromBase64(envelope.salt), iterations)
      decrypted == AesGcmDecrypt(aesKey, fromBase64(envelope.iv), fromBase64(envelope.c))
      snapshot == IF decrypted = None THEN None ELSE JSONparse(decrypted[1])
      Failed(message, plaintext) ==
        [error |-> message, snapshot |-> None, plaintext |-> plaintext]
  IN  IF Field(envelope, "t") # Some("quick")
      THEN Failed("Payload is not a quick transfer bundle.", None)
      ELSE IF Field(envelope, "salt") = None \/ Field(envelope, "iv") = None
              \/ Field(envelope, "c") = None
      THEN Failed("Payload missing encryption fields.", None)
      ELSE IF decrypted = None \/ snapshot = None
      THEN Failed("Unable to decrypt payload. Double-check the passphrase and try again.",
                  decrypted)
      ELSE [error |-> "", snapshot |-> snapshot, plaintext |-> decrypted]

\* handleQuickImport() up to the decrypted snapshot
quickChecks(rawPassphrase, rawPayload) ==
  LET compactPassphrase == ensureQuickPassphrase(rawPassphrase)
      decoded == decodeQuickPayload(rawPayload)
      Failed(message) == [error |-> message, snapshot |-> None, plaintext |-> None]
  IN  IF compactPassphrase = None
      THEN Failed("Passphrase must include at least 16 characters (four groups).")
      ELSE IF rawPayload = EmptyText
      THEN Failed("Paste the encrypted bundle from the sender.")
      ELSE IF decoded.error # "" THEN Failed(decoded.error)
      ELSE decryptQuickPayload(decoded.envelope[1], compactPassphrase[1])

\* handleQuickImport(): the values of the passphrase and bundle inputs
handleQuickImport(db, rawPassphrase, rawPayload, now) ==
  finishImport(db, quickChecks(rawPassphrase, rawPayload), now)

(***************************************************************************)
(* The inputs of the model                                                 *)
(***************************************************************************)
MaxDate == 2
Dates == 1..MaxDate

Secret1 == <<"C", "o", "r", "r", "e", "c", "t", "-", "1", "h">>
Secret2 == <<"B", "a", "t", "t", "e", "r", "y", "!", "2", "s">>

SiteFb == <<"f", "b">>
SiteGh == <<"g", "h">>

Form(site, secret, counter) ==
  [site |-> site, secret |-> secret, counter |-> counter,
   algorithm |-> "PBKDF2-SHA256", length |-> 16, policyOn |-> TRUE,
   compatMode |-> FALSE, iterations |-> 100000, argonMem |-> 64, scryptN |-> 16384]

FormA == Form(SiteFb, Secret1, <<"0">>)
FormB == Form(SiteFb, Secret1, <<"1">>)
FormC == Form(SiteFb, Secret1, <<"2">>)
FormG == Form(SiteGh, Secret1, <<"0">>)
\* A form handleGenerate rejects: no secret
FormBad == Form(SiteGh, <<>>, <<"0">>)

\* The forms submitted on this device in the registry specification
RegistryForms == {FormA, FormB, FormBad}

\* What a peer device has generated, in order
PeerHistories == {<<FormC>>, <<FormA, FormC>>, <<FormC, FormB>>, <<FormG, FormC>>}

PeerDate == 1

RECURSIVE PeerDb(_)
\* The peer's database after generating the forms of a history
PeerDb(h) ==
  IF h = <<>> THEN Db(EmptyStore, EmptyStore)
  ELSE handleGenerate(PeerDb(SubSeq(h, 1, Len(h) - 1)), h[Len(h)], PeerDate).db

\* The snapshots a peer exports (sync.js hands them to importRegistrySnapshot)
PeerSnapshots == {exportRegistrySnapshot(PeerDb(h), PeerDate).snapshot : h \in PeerHistories}

(***************************************************************************)
(* The registry specification: generate, import, reset                     *)
(***************************************************************************)
vars ==
  <<registryStore, recipeStore, lastCall, memo, sendState, receiveState, runStep, recordedIds,
    quickScanner, browser, calls, syncUi, quickState>>

\* sync.js:19-21, 45: the scanner overlay is hidden, nothing is held
ClosedScanner ==
  [hidden |-> TRUE, quickScannerStream |-> 0, quickScannerFrameId |-> 0,
   isQuickScannerActive |-> FALSE]

\* sync.js:17, 790 and the markup: both dialogs are hidden, no call prepares
ClosedDialogs ==
  [modalHidden |-> TRUE, quickModalHidden |-> TRUE,
   isPreparingOffer |-> FALSE, isPreparingQuickBundle |-> FALSE]

\* No camera stream has been opened and no animation frame requested
IdleBrowser == [live |-> {}, opened |-> 0, frames |-> {}, requested |-> 0]

syncVars == <<sendState, receiveState, runStep>>

CurrentDb == Db(registryStore, recipeStore)

Init ==
  /\ registryStore = EmptyStore
  /\ recipeStore = EmptyStore
  /\ lastCall = [op |-> "none"]
  /\ memo = None
  /\ sendState = resetSendState
  /\ receiveState = resetReceiveState
  /\ runStep = 0
  /\ recordedIds = EmptyStore
  /\ quickScanner = ClosedScanner
  /\ browser = IdleBrowser
  /\ calls = <<>>
  /\ syncUi = ClosedDialogs
  /\ quickState = resetQuickState

\* The ids of a version list, in list order
IdsOf(versions) == Array([i \in 1..Len(versions) |-> versions[i].id])

IdSet(versions) == {versions[i].id : i \in 1..Len(versions)}

\* recordedIds after the ids have entered the registry under the site
Record(log, site, ids) ==
  IF ids = {} THEN log
  ELSE setItem(log, site, IF site \in DOMAIN log THEN log[site] \cup ids ELSE ids)

RECURSIVE RecordSnapshot(_, _)
RecordSnapshot(log, entries) ==
  IF entries = <<>> THEN log
  ELSE RecordSnapshot(Record(log, Trim(Head(entries).site), IdSet(Head(entries).versions)),
                      Tail(entries))

\* ui.js handleGenerate (click on Generate)
HandleGenerate(form, now) ==
  \E out \in {handleGenerate(CurrentDb, form, now)} :
      /\ registryStore' = out.db.registry
      /\ recipeStore' = out.db.recipes
      /\ lastCall' = out.call
      /\ recordedIds' = IF out.call.ok
                     THEN Record(recordedIds, out.call.recipe.site, {out.call.recipeId})
                     ELSE recordedIds
      /\ UNCHANGED <<memo, syncVars, asyncVars>>

\* The successful tail of a sync import: importRegistrySnapshot, then
\* refreshHistoryList (sync.js:219-227, sync.js:1192-1200)
ImportRegistrySnapshot(snapshot, now) ==
  \E out \in {importRegistrySnapshot(CurrentDb, snapshot, now)} :
    \E after \in {fetchRecipes(out.db)} :
      /\ registryStore' = after.registry
      /\ recipeStore' = after.recipes
      /\ lastCall' = [op |-> "import",
                      importedSites |-> out.importedSites,
                      importedVersions |-> out.importedVersions,
                      registry |-> out.db.registry,
                      again |-> importRegistrySnapshot(out.db, snapshot, now + 1),
                      grown |-> {site \in DOMAIN registryStore :
                                   Len(after.registry[site].versions)
                                     > Len(registryStore[site].versions)}]
      /\ recordedIds' = RecordSnapshot(recordedIds, snapshot.entries)
      /\ UNCHANGED <<memo, syncVars, asyncVars>>

\* ui.js handleResetAppData: clearAllData()
HandleResetAppData ==
  /\ recipeStore' = EmptyStore
  /\ registryStore' = EmptyStore
  /\ lastCall' = [op |-> "reset"]
  /\ recordedIds' = EmptyStore
  /\ UNCHANGED <<memo, syncVars, asyncVars>>

Next ==
  \/ \E form \in RegistryForms, now \in Dates : HandleGenerate(form, now)
  \/ \E snapshot \in PeerSnapshots, now \in Dates : ImportRegistrySnapshot(snapshot, now)
  \/ HandleResetAppData

Spec == Init /\ [][Next]_vars

Recorded == lastCall.op = "generate" /\ lastCall.ok

\* The version list of the recorded recipe's site before and after the call
VersionsBefore == IF lastCall.before = None THEN <<>> ELSE lastCall.before[1].versions
VersionsAfter == registryStore[lastCall.recipe.site].versions

\* The recorded recipe's id occurred in the entry before the call
IdOccurred == lastCall.recipeId \in IdSet(VersionsBefore)

\* The call appended the recipe under the next number
AppendedAsNext ==
  /\ Len(VersionsAfter) = Len(VersionsBefore) + 1
  /\ IdsOf(VersionsAfter) = Append(IdsOf(VersionsBefore), lastCall.recipeId)
  /\ VersionsAfter[Len(VersionsAfter)].version = Len(VersionsBefore) + 1

\* Every entry holds as many versions as distinct ids entered it
CountIsDistinctIds ==
  /\ DOMAIN recordedIds = DOMAIN registryStore
  /\ \A site \in DOMAIN registryStore :
       Len(registryStore[site].versions) = Cardinality(recordedIds[site])

\* C3 as stated: recording an id that occurs in the entry keeps the count and
\* reports isNewVersion=false; recording an id that does not occur appends it
\* as previous count + 1 and reports isNewVersion=true and matchedVersion=null;
\* hence the number of versions is the number of distinct ids recorded.
C3_AsStated ==
  /\ CountIsDistinctIds
  /\ Recorded =>
       IF IdOccurred
       THEN /\ Len(VersionsAfter) = Len(VersionsBefore)
            /\ ~lastCall.result.isNewVersion
       ELSE /\ AppendedAsNext
            /\ lastCall.result.isNewVersion
            /\ lastCall.result.matchedVersion = None

\* C3 (amended): recording an id that occurs in the entry keeps the count and
\* reports isNewVersion=false; recording an id that does not occur in an
\* existing entry appends it as previous count + 1 and reports
\* isNewVersion=true and matchedVersion=null; recording for a site without an
\* entry creates version 1 and reports wasExistingRegistry=false,
\* isNewVersion=false and matchedVersion = that version.  Hence the number of
\* versions is the number of distinct ids recorded.
C3_Amended ==
  /\ CountIsDistinctIds
  /\ Recorded =>
       IF IdOccurred
       THEN /\ Len(VersionsAfter) = Len(VersionsBefore)
            /\ ~lastCall.result.isNewVersion
       ELSE IF lastCall.before # None
       THEN /\ AppendedAsNext
            /\ lastCall.result.isNewVersion
            /\ lastCall.result.matchedVersion = None
       ELSE /\ AppendedAsNext
            /\ ~lastCall.result.wasExistingRegistry
            /\ ~lastCall.result.isNewVersion
            /\ lastCall.result.matchedVersion = Some(VersionsAfter[1])

\* All three cases have happened to the entry: it was created, grew, and the
\* last call recorded an id it already held among several
C3_Witness ==
  /\ Recorded
  /\ IdOccurred
  /\ Len(VersionsBefore) >= 2
  /\ ~lastCall.result.isNewVersion

\* The version of the entry before the call that has the recorded id
Matched == CHOOSE v \in {VersionsBefore[i] : i \in 1..Len(VersionsBefore)} :
             v.id = lastCall.recipeId

\* C4: when the recorded id equals the id of an existing version of the site's
\* entry, that version's record (the recipe record stored under the id) is
\* overwritten in place with the recipe's data while keeping the version's
\* number, the entry's list is not renumbered or extended, and the result
\* reports matchedVersion = the matching version and latestVersion = the last
\* element of the existing list, also when the match is not the last element.
C4_MatchUpdatesInPlace ==
  (Recorded /\ IdOccurred) =>
    /\ recipeStore[lastCall.recipeId] =
         [lastCall.recipe EXCEPT !.version = Matched.version]
    /\ VersionsAfter = VersionsBefore
    /\ lastCall.result.matchedVersion = Some(Matched)
    /\ lastCall.result.latestVersion = VersionsBefore[Len(VersionsBefore)]

\* The match is not the last element and the recipe carries a newer date
C4_Witness ==
  /\ Recorded
  /\ IdOccurred
  /\ Matched # VersionsBefore[Len(VersionsBefore)]
  /\ lastCall.recipe.date # Matched.date

\* list restricted to the elements of set, in list order
RECURSIVE Restrict(_, _)
Restrict(list, set) ==
  IF list = <<>> THEN <<>>
  ELSE IF Head(list) \in set THEN <<Head(list)>> \o Restrict(Tail(list), set)
  ELSE Restrict(Tail(list), set)

\* The step is an importRegistrySnapshot
ImportStep == lastCall'.op = "import"

\* C5: importRegistrySnapshot merges additively: every site's version ids
\* present before the import are present after it, in the same relative order.
C5_ImportAdditive ==
  [][ImportStep =>
       \A site \in DOMAIN registryStore :
         /\ site \in DOMAIN registryStore'
         /\ Restrict(IdsOf(registryStore'[site].versions),
                     IdSet(registryStore[site].versions))
              = IdsOf(registryStore[site].versions)]_vars

\* An import has added a version to an entry that held two or more
C5_Witness ==
  /\ lastCall.op = "import"
  /\ \E site \in lastCall.grown : Len(registryStore[site].versions) >= 3

\* C6 as stated: under importRegistrySnapshot every version that existed
\* before keeps its version number, and the versions the import adds get
\* numbers greater than all pre-existing ones.
C6_AppendOnly ==
  [][ImportStep =>
       \A site \in DOMAIN registryStore :
         LET before == registryStore[site].versions
             after == registryStore'[site].versions
         IN  \A j \in 1..Len(after) :
               IF after[j].id \in IdSet(before)
               THEN \E i \in 1..Len(before) :
                      before[i].id = after[j].id /\ before[i].version = after[j].version
               ELSE after[j].version > Len(before)]_vars

(***************************************************************************)
(* The inputs of the sync specification: the random draws, what the two    *)
(* users paste and type, and payloads altered on the way                   *)
(***************************************************************************)
SenderScalar == 3
ReceiverScalar == 5
IntruderScalar == 7

SessionIds == {<<"a", "1">>}
OtherSession == <<"c", "3">>

KeySalt == [salt |-> 1]
OtherSalt == [salt |-> 2]
Iv == [iv |-> 1]

\* What exportRegistrySnapshot() returns on the sending device
SyncSnapshots ==
  {exportRegistrySnapshot(PeerDb(h), PeerDate).snapshot : h \in {<<FormC>>, <<FormA, FormC>>}}

\* A snapshot no device of the model exports
OtherSnapshot == [exportedAt |-> 0, sites |-> 0, entries |-> <<>>]

\* The envelope an encoded payload carries
EnvelopeOf(payload) == payload.encoded.base32.json

\* The payload with one envelope field replaced, and with one field removed
WithField(payload, name, value) ==
  [payload EXCEPT !.encoded =
     encodeText(JSONstringify((name :> value) @@ EnvelopeOf(payload)))]

WithoutField(payload, name) ==
  LET envelope == EnvelopeOf(payload)
  IN  [payload EXCEPT !.encoded =
         encodeText(JSONstringify([f \in DOMAIN envelope \ {name} |-> envelope[f]]))]

\* Alterations every kind of payload can suffer
Garbled(payload) ==
  {[payload EXCEPT !.prefix = "https://"],
   [payload EXCEPT !.encoded = [garbled |-> TRUE]],
   [payload EXCEPT !.encoded = encodeText([text |-> "not json"])],
   WithField(payload, "v", 1)}

IntruderPub == toBase64(exportKey(generateKey(IntruderScalar).publicKey))

\* What can be pasted into the offer input
OfferInputs ==
  LET offer == sendState.offerPayload
  IN  {EmptyText} \cup
      IF offer = EmptyText THEN {}
      ELSE {offer, [offer EXCEPT !.prefix = "PGENSYNC:"],
            WithField(offer, "session", OtherSession),
            WithField(offer, "senderPub", IntruderPub),
            WithField(offer, "senderPub", toBase64([raw |-> 0])),
            WithoutField(offer, "senderPub"),
            WithField(offer, "t", "data")}

\* What can be pasted into the response input
ResponseInputs ==
  LET response == receiveState.responsePayload
  IN  {EmptyText, sendState.offerPayload} \cup
      IF response = EmptyText THEN {}
      ELSE {response,
            WithField(response, "session", OtherSession),
            WithField(response, "receiverPub", IntruderPub),
            WithField(response, "proof", toBase64([forged |-> TRUE])),
            WithoutField(response, "receiverPub")}

Zero8 == <<"0", "0", "0", "0", "0", "0", "0", "0">>

\* What can be pasted into the final-payload input
DataInputs ==
  LET final == sendState.finalPayload
  IN  {EmptyText, sendState.offerPayload} \cup
      IF final = EmptyText THEN {}
      ELSE {final, [final EXCEPT !.prefix = "PGENSYNC:"]} \cup Garbled(final) \cup
           {WithField(final, "session", OtherSession),
            WithoutField(final, "iv"),
            WithoutField(final, "salt"),
            WithField(final, "salt", toBase64(OtherSalt)),
            WithField(final, "auth", Zero8),
            WithoutField(final, "auth"),
            WithField(final, "c", toBase64([garbled |-> TRUE])),
            WithoutField(final, "h"),
            WithField(final, "h", toBase64(SubtleDigest(JSONstringify(OtherSnapshot))))}

\* The names of the envelope fields in which a pasted payload differs from the
\* payload the peer device shows; none when either is no readable envelope
AlteredFields(raw, shown) ==
  IF shown = EmptyText \/ raw = EmptyText \/ raw.prefix # shown.prefix THEN {}
  ELSE With(decodeEnvelope(raw), LAMBDA decoded :
         IF decoded.error # "" THEN {}
         ELSE {f \in DOMAIN decoded.envelope[1] \cup DOMAIN EnvelopeOf(shown) :
                 Field(decoded.envelope[1], f) # Field(EnvelopeOf(shown), f)})

\* What a pasted response changed in the response this device shows for the
\* sender's current offer
TamperedResponse(raw) ==
  IF runStep \in {2, 3} THEN AlteredFields(raw, receiveState.responsePayload) ELSE {}

\* What a pasted final payload and a typed code changed in the data envelope
\* and the code the sending device shows for the current session
TamperedData(rawPayload, typed) ==
  IF runStep >= 3
  THEN AlteredFields(rawPayload, sendState.finalPayload) \cup
       (IF StripWhitespace(typed) # sendState.code THEN {"typed"} ELSE {})
  ELSE {}

\* The code with a blank typed in the middle
Spaced(code) == IF Len(code) < 4 THEN code
                ELSE SubSeq(code, 1, 4) \o <<" ">> \o SubSeq(code, 5, Len(code))

\* What can be typed into the code confirmation input
TypedCodes ==
  {<<>>, sendState.code, Spaced(receiveState.code), <<"1", "2", "3">>, Zero8}

Passphrase1 == <<"A", "B", "C", "D", "-", "E", "F", "G", "H", "-",
                 "2", "3", "4", "5", "-", "J", "K", "M", "N">>
\* The same passphrase typed in lower case without the hyphens
Passphrase1Typed == <<"a", "b", "c", "d", "e", "f", "g", "h",
                      "2", "3", "4", "5", "j", "k", "m", "n">>
Passphrase2 == <<"Z", "Z", "Z", "Z", "-", "E", "F", "G", "H", "-",
                 "2", "3", "4", "5", "-", "J", "K", "M", "N">>
PassphraseShort == <<"A", "B", "C", "D", "-", "E", "F", "G", "H">>

Passphrases == {Passphrase1Typed, Passphrase2, PassphraseShort}

\* The snapshot the sending device exports for a quick transfer
QuickSnapshot == exportRegistrySnapshot(PeerDb(<<FormC>>), PeerDate).snapshot

\* The bundles prepareQuickBundle() shows on the sending device
QuickBundles ==
  {encodeQuickPayload(snapshot, ensureQuickPassphrase(Passphrase1)[1], KeySalt, Iv) :
     snapshot \in {QuickSnapshot}}

\* What can be pasted into the quick bundle input
QuickInputs ==
  {EmptyText} \cup QuickBundles \cup
  UNION {{[bundle EXCEPT !.prefix = SYNC_PREFIX],
          [bundle EXCEPT !.encoded = [garbled |-> TRUE]],
          WithField(bundle, "t", "data"),
          WithoutField(bundle, "c"),
          WithField(bundle, "iter", 1),
          WithoutField(bundle, "iter")} : bundle \in QuickBundles}

(***************************************************************************)
(* The sync specification: a sending device and this device, which         *)
(* receives; the texts travel through the users' hands                     *)
(***************************************************************************)
\* switchMode('send') / Regenerate on the sending device: prepareSendOffer()
PrepareSendOffer(snapshot, sessionId) ==
  /\ sendState' = prepareSendOffer(snapshot, SenderScalar, sessionId)
  /\ runStep' = 1
  /\ lastCall' = [op |-> "prepareSendOffer"]
  /\ UNCHANGED <<storeVars, memo, receiveState, recordedIds, asyncVars>>

\* Process offer on this device
HandleProcessOffer(raw) ==
  \E out \in {handleProcessOffer(receiveState, raw, ReceiverScalar)} :
      /\ receiveState' = out.receive
      /\ runStep' = IF runStep >= 1 /\ raw # EmptyText /\ raw = sendState.offerPayload
                    THEN 2 ELSE 0
      /\ lastCall' = [op |-> "handleProcessOffer", status |-> out.status]
      /\ UNCHANGED <<storeVars, memo, sendState, recordedIds, asyncVars>>

\* Process response on the sending device
HandleProcessResponse(raw) ==
  \E out \in {handleProcessResponse(sendState, raw, KeySalt, Iv)} :
      /\ sendState' = out.send
      /\ runStep' = IF runStep \in {2, 3} /\ raw # EmptyText
                       /\ raw = receiveState.responsePayload
                    THEN 3 ELSE 0
      /\ lastCall' = [op |-> "handleProcessResponse", status |-> out.status,
                      tampered |-> TamperedResponse(raw)]
      /\ UNCHANGED <<storeVars, memo, receiveState, recordedIds, asyncVars>>

\* Import on this device
HandleImport(rawPayload, typed, now) ==
  \E out \in {handleImport(CurrentDb, receiveState, rawPayload, typed, now)} :
      /\ registryStore' = out.db.registry
      /\ recipeStore' = out.db.recipes
      /\ recordedIds' = IF out.snapshot = None THEN recordedIds
                        ELSE RecordSnapshot(recordedIds, out.snapshot[1].entries)
      /\ runStep' = IF runStep >= 3 /\ rawPayload = sendState.finalPayload
                       /\ typed = sendState.code
                    THEN 4
                    ELSE IF runStep = 4 THEN 3 ELSE runStep
      /\ lastCall' = IF out.snapshot = None
                     THEN [op |-> "handleImport", status |-> out.status,
                           tampered |-> TamperedData(rawPayload, typed)]
                     ELSE [op |-> "handleImport", status |-> out.status,
                           tampered |-> TamperedData(rawPayload, typed),
                           rawPayload |-> rawPayload, typed |-> typed,
                           snapshot |-> out.snapshot]
      /\ UNCHANGED <<memo, sendState, receiveState, asyncVars>>

\* Quick import on this device
HandleQuickImport(rawPassphrase, rawPayload, now) ==
  \E out \in {handleQuickImport(CurrentDb, rawPassphrase, rawPayload, now)} :
      /\ registryStore' = out.db.registry
      /\ recipeStore' = out.db.recipes
      /\ recordedIds' = IF out.snapshot = None THEN recordedIds
                        ELSE RecordSnapshot(recordedIds, out.snapshot[1].entries)
      /\ runStep' = IF runStep = 4 THEN 3 ELSE runStep
      /\ lastCall' = [op |-> "handleQuickImport", status |-> out.status,
                      rawPayload |-> rawPayload, rawPassphrase |-> rawPassphrase,
                      snapshot |-> out.snapshot]
      /\ UNCHANGED <<memo, sendState, receiveState, asyncVars>>

\* closeModal() on the sending device
CloseModalOnSender ==
  /\ sendState' = resetSendState
  /\ runStep' = 0
  /\ lastCall' = [op |-> "closeModal"]
  /\ UNCHANGED <<storeVars, memo, receiveState, recordedIds, asyncVars>>

\* closeModal() on this device
CloseModalOnReceiver ==
  /\ receiveState' = resetReceiveState
  /\ runStep' = 0
  /\ lastCall' = [op |-> "closeModal"]
  /\ UNCHANGED <<storeVars, memo, sendState, recordedIds, asyncVars>>

NextSync ==
  \/ \E snapshot \in SyncSnapshots, sessionId \in SessionIds :
       PrepareSendOffer(snapshot, sessionId)
  \/ \E raw \in OfferInputs : HandleProcessOffer(raw)
  \/ \E raw \in ResponseInputs : HandleProcessResponse(raw)
  \/ \E raw \in DataInputs, typed \in TypedCodes : HandleImport(raw, typed, MaxDate)
  \/ \E rawPassphrase \in Passphrases, raw \in QuickInputs :
       HandleQuickImport(rawPassphrase, raw, MaxDate)
  \/ CloseModalOnSender
  \/ CloseModalOnReceiver

SpecSync == Init /\ [][NextSync]_vars

(***************************************************************************)
(* The generation specification: handleGenerate between imports, resets    *)
(* and pairing on the sending side; memo keeps an earlier call             *)
(***************************************************************************)
FormA00 == Form(SiteFb, Secret1, <<"0", "0">>)

\* The forms submitted in the generation specification
GenForms == {FormA, FormA00, FormB}

\* The snapshot imported and offered in the generation specification
GenSnapshot == exportRegistrySnapshot(PeerDb(<<FormC>>), PeerDate).snapshot

\* What handleGenerate hands to generate and to the generator's constructor
\* for a form (ui.js:133-137, ui.js:171-181)
GenerateInputs(form) ==
  LET counterRaw == IF Trim(form.counter) = <<>> THEN <<"0">> ELSE Trim(form.counter)
      generator == PasswordGenerator(
        [algorithm |-> form.algorithm, length |-> form.length,
         policyOn |-> form.policyOn, compatMode |-> form.compatMode,
         parameters |-> [iterations |-> form.iterations, argonMem |-> form.argonMem,
                         scryptN |-> form.scryptN, balloonSpace |-> NaN,
                         balloonTime |-> NaN, balloonDelta |-> NaN]])
  IN  [site |-> Trim(form.site), secret |-> Trim(form.secret),
       counter |-> normalizeCounter(counterRaw), generator |-> generator]

\* Keep the generate call just made, with the number of recipes stored and the
\* pairing state it leaves
Remember ==
  /\ lastCall.op = "generate" /\ lastCall.ok
  /\ memo' = Some([form |-> lastCall.form, password |-> lastCall.password,
                   recipeId |-> lastCall.recipeId,
                   stored |-> Cardinality(DOMAIN recipeStore),
                   paired |-> sendState.sessionId # <<>>])
  /\ UNCHANGED <<storeVars, lastCall, syncVars, recordedIds, asyncVars>>

NextGen ==
  \/ \E form \in GenForms : HandleGenerate(form, MaxDate)
  \/ Remember
  \/ ImportRegistrySnapshot(GenSnapshot, MaxDate)
  \/ HandleResetAppData
  \/ \E sessionId \in SessionIds : PrepareSendOffer(GenSnapshot, sessionId)

SpecGen == Init /\ [][NextGen]_vars

\* The last call is a generate with the inputs of the remembered one
SameInputsAgain ==
  /\ memo # None
  /\ Recorded
  /\ GenerateInputs(lastCall.form) = GenerateInputs(memo[1].form)

Imported == lastCall.op = "handleImport" /\ lastCall.status = "Imported"

\* The envelope of the payload that handleImport imported
ImportedEnvelope == decodeEnvelope(lastCall.rawPayload).envelope[1]

\* The pairing code this device recomputes from what it stored for the session
ExpectedCode == derivePairingCode(receiveState.secretBytes[1], receiveState.sessionId)

\* C7: handleImport calls importRegistrySnapshot only when this device has
\* processed an offer (a session id and a shared secret are stored), the data
\* envelope's session equals receiveState.sessionId, the code the user typed
\* (blanks aside) equals the pairing code recomputed from the stored shared
\* secret and session id, and the envelope's auth field equals that same code.
C7_ImportRequiresPairing ==
  Imported =>
    /\ receiveState.sessionId # <<>>
    /\ receiveState.secretBytes # None
    /\ Field(ImportedEnvelope, "session") = Some(receiveState.sessionId)
    /\ StripWhitespace(lastCall.typed) = ExpectedCode
    /\ Field(ImportedEnvelope, "auth") = Some(ExpectedCode)

\* An import with the code typed in two groups has brought versions in
C7_Witness ==
  /\ Imported
  /\ lastCall.typed # StripWhitespace(lastCall.typed)
  /\ lastCall.snapshot[1].entries # <<>>
  /\ registryStore # EmptyStore

\* C8: handleImport imports a snapshot only if AEAD decryption of the data
\* envelope succeeds and the envelope carries a digest equal to the digest of
\* the decrypted plaintext.
C8_ImportRequiresDigest ==
  Imported =>
    LET envelope == ImportedEnvelope
        aesKey == deriveAesKey(receiveState.secretBytes[1], fromBase64(envelope.salt))
        decrypted == AesGcmDecrypt(aesKey, fromBase64(envelope.iv), fromBase64(envelope.c))
    IN  /\ decrypted # None
        /\ Field(envelope, "h") # None
        /\ compareBytes(fromBase64(envelope.h), SubtleDigest(decrypted[1]))

\* The step is a handleImport or a handleQuickImport in which a check failed
FailedImport ==
  /\ lastCall'.op \in {"handleImport", "handleQuickImport"}
  /\ lastCall'.status # "Imported"

\* C9: a handleImport or handleQuickImport in which a check fails leaves the
\* registry store and the recipe store exactly as they were before the call.
C9_FailedImportWritesNothing == [][FailedImport => UNCHANGED storeVars]_vars

\* A payload has failed the integrity check on a device that holds entries
C9_Witness ==
  /\ lastCall.op = "handleImport"
  /\ lastCall.status = "Integrity check failed."
  /\ registryStore # EmptyStore

\* C10: in an honest paired run (prepareSendOffer, handleProcessOffer on that
\* offer, handleProcessResponse on that response, handleImport on the resulting
\* data envelope with the sender's displayed code typed) the import succeeds,
\* both devices derived the same pairing code, and the snapshot handed to
\* importRegistrySnapshot is the one the sender exported with the offer.
C10_HonestRunSucceeds ==
  runStep = 4 =>
    /\ Imported
    /\ sendState.code = receiveState.code
    /\ lastCall.snapshot = sendState.snapshot

\* An honest run has ended and its versions are in the registry
C10_Witness ==
  /\ runStep = 4
  /\ lastCall.snapshot[1].entries # <<>>
  /\ \A i \in 1..Len(lastCall.snapshot[1].entries) :
       Trim(lastCall.snapshot[1].entries[i].site) \in DOMAIN registryStore

\* C11: in a run that has reached the step, a response that differs from the
\* receiver's response in the session id, the proof or the receiver's public
\* key alone makes handleProcessResponse fail and leave the sender's state (no
\* new data envelope, no code) as it was; a data envelope that differs from
\* the sender's in the session id, the auth code, the ciphertext, the iv or
\* the salt alone, or an intact envelope with another code typed, makes
\* handleImport fail and leave both stores as they were.
C11_TamperedMessageRejected ==
  [][/\ (/\ lastCall'.op = "handleProcessResponse"
          /\ lastCall'.tampered \in {{"session"}, {"proof"}, {"receiverPub"}})
        => /\ lastCall'.status # "Ready to share encrypted bundle."
           /\ UNCHANGED sendState
     /\ (/\ lastCall'.op = "handleImport"
          /\ lastCall'.tampered \in
               {{"session"}, {"auth"}, {"c"}, {"iv"}, {"salt"}, {"typed"}})
        => /\ lastCall'.status # "Imported"
           /\ UNCHANGED storeVars]_vars

\* A data envelope whose ciphertext alone was replaced has been refused after
\* a data envelope whose auth code alone was replaced would have been too
C11_Witness ==
  /\ lastCall.op = "handleImport"
  /\ lastCall.tampered = {"c"}
  /\ lastCall.status = "Unable to decrypt payload."
  /\ sendState.finalPayload # EmptyText

\* The statuses handleProcessResponse shows when the session or the proof of
\* a response does not verify
ResponseVerificationFailures ==
  {"Response session does not match the active offer.",
   "Response integrity check failed. Ask the receiver to regenerate."}

\* The statuses handleImport shows when the session, the pairing code, the
\* decryption or the digest of a data envelope does not verify
ImportVerificationFailures ==
  {"Session mismatch. Ensure you are importing the matching payload.",
   "The entered pairing code does not match this session.",
   "Received payload failed the pairing code check. Rejecting payload.",
   "Unable to decrypt payload.",
   "Integrity check failed."}

\* C12: after a verification failure in handleProcessResponse or handleImport
\* the same session cannot be retried: the next step is neither a
\* handleProcessResponse that produces a data envelope nor a handleImport that
\* imports, since a new offer has to be generated first.
C12_NoRetryAfterFailure ==
  [][/\ (/\ lastCall.op = "handleProcessResponse"
          /\ lastCall.status \in ResponseVerificationFailures)
        => ~(/\ lastCall'.op = "handleProcessResponse"
             /\ lastCall'.status = "Ready to share encrypted bundle.")
     /\ (/\ lastCall.op = "handleImport"
          /\ lastCall.status \in ImportVerificationFailures)
        => ~(/\ lastCall'.op = "handleImport"
             /\ lastCall'.status = "Imported")]_vars

(***************************************************************************)
(* Properties of the quick transfer                                        *)
(***************************************************************************)
\* The compact passphrase the sending device encrypted its bundle with
QuickCompact ==
  <<"A", "B", "C", "D", "E", "F", "G", "H", "2", "3", "4", "5", "J", "K", "M", "N">>

\* C13: handleQuickImport on the bundle encodeQuickPayload made from a snapshot
\* and a passphrase imports a snapshot equal to that snapshot when the typed
\* passphrase has the same compact form (letters and digits, upper-cased); with
\* any other passphrase it ends in an error, hands no snapshot on and leaves
\* both stores as they were.
C13_QuickRoundTrip ==
  [][(/\ lastCall'.op = "handleQuickImport"
      /\ lastCall'.rawPayload \in QuickBundles)
     => IF compactQuickPassphrase(lastCall'.rawPassphrase) = QuickCompact
        THEN /\ lastCall'.status = "Imported"
             /\ lastCall'.snapshot = Some(QuickSnapshot)
        ELSE /\ lastCall'.status \in
                  {"Unable to decrypt payload. Double-check the passphrase and try again.",
                   "Passphrase must include at least 16 characters (four groups)."}
             /\ lastCall'.snapshot = None
             /\ UNCHANGED storeVars]_vars

\* The bundle has been imported with the passphrase typed in lower case and
\* without dashes
C13_Witness ==
  /\ lastCall.op = "handleQuickImport"
  /\ lastCall.rawPayload \in QuickBundles
  /\ lastCall.rawPassphrase = Passphrase1Typed
  /\ lastCall.rawPassphrase # Passphrase1
  /\ lastCall.status = "Imported"
  /\ registryStore # EmptyStore

(***************************************************************************)
(* The sharing specification: this device generates, imports and resets,   *)
(* and offers its own registry to a peer, which answers; the sender then   *)
(* builds the data envelope                                                *)
(***************************************************************************)
FormH == Form(SiteGh, Secret2, <<"0">>)

\* The forms submitted in the sharing specification
ShareForms == {FormA, FormH}

\* Forms that pass the checks of handleGenerate and hold "|" in the site or
\* in the secret
PipeForms ==
  {Form(<<"f", "|", "b">>, Secret1, <<"0">>),
   Form(SiteFb, <<"C", "o", "r", "|", "e", "c", "t", "-", "1", "h">>, <<"0">>)}

\* A form whose algorithm no primitive accepts
FormMd5 == [FormA EXCEPT !.algorithm = "MD5"]

\* prepareSendOffer() on this device: exportRegistrySnapshot() of its own
\* stores, then the offer
PrepareSendOfferLocal(sessionId, now) ==
  \E out \in {exportRegistrySnapshot(CurrentDb, now)} :
      /\ registryStore' = out.db.registry
      /\ recipeStore' = out.db.recipes
      /\ sendState' = prepareSendOffer(out.snapshot, SenderScalar, sessionId)
      /\ runStep' = 1
      /\ lastCall' = [op |-> "prepareSendOffer"]
      /\ UNCHANGED <<memo, receiveState, recordedIds, asyncVars>>

NextShare ==
  \/ \E form \in ShareForms \cup PipeForms \cup {FormMd5} :
       HandleGenerate(form, MaxDate)
  \/ ImportRegistrySnapshot(GenSnapshot, MaxDate)
  \/ HandleResetAppData
  \/ \E sessionId \in SessionIds : PrepareSendOfferLocal(sessionId, MaxDate)
  \/ sendState.offerPayload # EmptyText /\ HandleProcessOffer(sendState.offerPayload)
  \/ receiveState.responsePayload # EmptyText
       /\ HandleProcessResponse(receiveState.responsePayload)

SpecShare == Init /\ [][NextShare]_vars

\* The secret, the derived hex and the password of the generate call that
\* handleGenerate makes for a form
SecretsOf(form) ==
  With(GenerateInputs(form), LAMBDA in :
    With(generate(in.generator, in.site, in.secret, in.counter), LAMBDA generated :
      {in.secret, generated.hex, generated.password}))

\* Every secret typed, hex derived and password generated on this device or on
\* the peer device
Sensitive == UNION {SecretsOf(form) : form \in ShareForms \cup {FormC}}

RecipeFields ==
  {"id", "shortId", "site", "algorithm", "length", "counter", "policyOn",
   "compatMode", "date", "parameters", "version"}

\* A stored recipe holds the recipe fields only; its texts are no secret, hex
\* or password, its other fields are names, numbers and flags, and its id and
\* short id are the ones computeRecipeId derives from those fields
PublicRecipe(recipe) ==
  /\ DOMAIN recipe \subseteq RecipeFields
  /\ recipe.site \notin Sensitive
  /\ recipe.counter \notin Sensitive
  /\ \E i \in 1..Len(AlgorithmNames) : recipe.algorithm = AlgorithmNames[i]
  /\ recipe.length \in Int /\ recipe.date \in Int
  /\ recipe.policyOn \in BOOLEAN /\ recipe.compatMode \in BOOLEAN
  /\ \A name \in DOMAIN recipe.parameters : recipe.parameters[name] \in Int
  /\ With(computeRecipeId(recipe), LAMBDA recipeId :
          recipe.id = recipeId.digest /\ recipe.shortId = recipeId.short)

PublicVersions(versions) ==
  \A i \in 1..Len(versions) : PublicRecipe(versions[i]) /\ versions[i].version \in Int

PublicSnapshot(snapshot) ==
  /\ DOMAIN snapshot = {"exportedAt", "sites", "entries"}
  /\ snapshot.exportedAt \in Int /\ snapshot.sites \in Int
  /\ \A i \in 1..Len(snapshot.entries) :
        /\ DOMAIN snapshot.entries[i] = {"site", "versions"}
        /\ snapshot.entries[i].site \notin Sensitive
        /\ PublicVersions(snapshot.entries[i].versions)

\* C14: in every state the recipe store and the registry store hold, under
\* keys that are no secret, recipes without a secret, a derived hex or a
\* password; so does the snapshot exported for an offer; the offer envelope
\* holds the session, the sender's public key and three counts, and what the
\* data envelope encrypts and digests is that snapshot.
C14_NoSecretStored ==
  /\ \A id \in DOMAIN recipeStore :
        id = recipeStore[id].id /\ PublicRecipe(recipeStore[id])
  /\ \A site \in DOMAIN registryStore :
        /\ site \notin Sensitive
        /\ DOMAIN registryStore[site] = {"site", "versions"}
        /\ registryStore[site].site \notin Sensitive
        /\ PublicVersions(registryStore[site].versions)
  /\ sendState.snapshot # None => PublicSnapshot(sendState.snapshot[1])
  /\ sendState.offerPayload # EmptyText =>
        With(EnvelopeOf(sendState.offerPayload), LAMBDA envelope :
          /\ DOMAIN envelope = {"v", "t", "session", "senderPub", "meta"}
          /\ envelope.session \in SessionIds
          /\ envelope.senderPub = toBase64(exportKey(generateKey(SenderScalar).publicKey))
          /\ DOMAIN envelope.meta = {"exportedAt", "sites", "versions"}
          /\ \A name \in DOMAIN envelope.meta : envelope.meta[name] \in Int)
  /\ sendState.finalPayload # EmptyText =>
        With(EnvelopeOf(sendState.finalPayload), LAMBDA envelope :
          /\ DOMAIN envelope =
               {"v", "t", "session", "iv", "c", "h", "salt", "auth", "meta"}
          /\ fromBase64(envelope.c).plaintext = JSONstringify(sendState.snapshot[1])
          /\ fromBase64(envelope.h) = SubtleDigest(JSONstringify(sendState.snapshot[1]))
          /\ envelope.auth = sendState.code
          /\ \A name \in DOMAIN envelope.meta : envelope.meta[name] \in Int)

\* Recipes generated with two different secrets and an imported one are in
\* the stores, and the data envelope built from their export is ready
C14_Witness ==
  /\ sendState.finalPayload # EmptyText
  /\ sendState.snapshot[1].sites >= 2
  /\ Cardinality(DOMAIN recipeStore) >= 3
  /\ lastCall.op = "generate" /\ lastCall.ok
  /\ lastCall.password \in Sensitive

(***************************************************************************)
(* The function specification: the static and pure functions of            *)
(* generator.js applied to inputs drawn from small sets; lastCall holds    *)
(* the input and the result of the last application                        *)
(***************************************************************************)
\* PBKDF2-SHA256 (100000 iterations) of facebook|Correct-1h|18, and SHA-256 of
\* facebook|Correct-1h|0 and of facebook|Correct-1h|1229, as hex
HexPbkdf18 ==
  <<"1", "6", "0", "b", "b", "4", "1", "9", "8", "5", "2", "6", "6", "3",
    "5", "3", "0", "6", "9", "e", "b", "9", "5", "3", "1", "f", "6", "e",
    "1", "6", "a", "0", "5", "b", "5", "9", "9", "f", "6", "c", "4", "e",
    "5", "3", "0", "e", "1", "1", "1", "0", "9", "5", "6", "2", "2", "4",
    "7", "b", "b", "d", "b", "4", "6", "f">>

HexSha0 ==
  <<"0", "a", "4", "8", "3", "3", "9", "7", "5", "c", "c", "d", "1", "0",
    "b", "0", "6", "6", "b", "4", "e", "2", "d", "f", "e", "b", "0", "9",
    "9", "3", "5", "0", "4", "0", "3", "e", "f", "e", "f", "d", "4", "6",
    "e", "f", "a", "c", "a", "5", "d", "8", "c", "7", "f", "6", "8", "f",
    "0", "1", "7", "e", "e", "9", "d", "1">>

HexSha1229 ==
  <<"b", "6", "6", "2", "9", "7", "d", "b", "8", "9", "b", "0", "5", "5",
    "b", "9", "3", "f", "1", "7", "6", "7", "f", "9", "9", "f", "8", "1",
    "a", "e", "d", "3", "e", "d", "b", "8", "4", "b", "4", "1", "4", "6",
    "1", "2", "a", "f", "5", "5", "0", "4", "5", "6", "3", "0", "6", "b",
    "9", "d", "d", "1", "d", "3", "2", "8">>

\* The hex strings handed to mapToPassword
MapHexes == {HexPbkdf18, HexSha0, HexSha1229, bufferToHex(MixBytes(1, 1, 1, 1, 32))}

\* The lengths handed to the constructor; NaN stands for a value that is not
\* an integer
RequestedLengths == {NaN, 0, 7, 8, 16, 50, 51}

\* new PasswordGenerator({length, policyOn, compatMode}).mapToPassword(hex)
MapToPassword(hex, length, policyOn, compatMode) ==
  With(PasswordGenerator(
         [algorithm |-> "PBKDF2-SHA256", length |-> length,
          policyOn |-> policyOn, compatMode |-> compatMode,
          parameters |-> DEFAULT_PARAMETERS]),
       LAMBDA generator :
         /\ lastCall' = [op |-> "mapToPassword", hex |-> hex, requested |-> length,
                         generator |-> generator,
                         password |-> mapToPassword(generator, hex)]
         /\ UNCHANGED <<storeVars, memo, syncVars, runStep, recordedIds, asyncVars>>)

\* Spellings of one site
FacebookSpellings ==
  {<<"f", "a", "c", "e", "b", "o", "o", "k">>,
   <<"F", "a", "c", "e", "B", "o", "o", "k">>,
   <<"f", "a", "c", "e", "b", "o", "o", "k", ".", "c", "o", "m">>,
   <<"F", "A", "C", "E", "B", "O", "O", "K", ".", "c", "o", "m">>,
   <<"w", "w", "w", ".", "f", "a", "c", "e", "b", "o", "o", "k", ".", "c", "o", "m">>,
   <<"h", "t", "t", "p", "s", ":", "/", "/", "w", "w", "w", ".", "f", "a", "c", "e", "b", "o", "o", "k", ".", "c", "o", "m", "/">>}

\* Spellings of a host below a .com domain
SubdomainSpellings ==
  {<<"m", "a", "i", "l", ".", "e", "x", "a", "m", "p", "l", "e", ".", "c", "o", "m">>,
   <<"w", "w", "w", ".", "m", "a", "i", "l", ".", "e", "x", "a", "m", "p", "l", "e", ".", "c", "o", "m">>,
   <<"h", "t", "t", "p", "s", ":", "/", "/", "m", "a", "i", "l", ".", "e", "x", "a", "m", "p", "l", "e", ".", "c", "o", "m", "/">>}

\* Hosts with a repeated "www." label or a repeated ".com" suffix
RepeatedLabelSites ==
  {<<"w", "w", "w", ".", "w", "w", "w", ".", "f", "a", "c", "e", "b", "o", "o", "k", ".", "c", "o", "m">>,
   <<"w", "w", "w", ".", "w", "w", "w", ".", "c", "o", "m">>,
   <<"f", "a", "c", "e", "b", "o", "o", "k", ".", "c", "o", "m", ".", "c", "o", "m">>}

\* The sites handed to normalizeSite and generate
SiteInputs ==
  FacebookSpellings \cup SubdomainSpellings \cup RepeatedLabelSites \cup
  {<<" ", "f", "a", "c", "e", "b", "o", "o", "k", " ">>,
   <<"e", "x", "a", "m", "p", "l", "e", ".", "o", "r", "g">>,
   <<"f", "a", "c", "e", "b", "o", "o", "k", ".", "c", "o", "m", ".", "a", "u">>}

\* The generator handleGenerate builds for the default form
DefaultGenerator == GenerateInputs(FormA).generator

\* PasswordGenerator.normalizeSite(site), and generate for the site with the
\* other inputs fixed
NormalizeSite(site) ==
  /\ lastCall' = [op |-> "normalizeSite", site |-> site,
                  normalized |-> normalizeSite(site),
                  again |-> normalizeSite(normalizeSite(site)),
                  password |-> generate(DefaultGenerator, site, Secret1, <<"0">>).password]
  /\ UNCHANGED <<storeVars, memo, syncVars, runStep, recordedIds, asyncVars>>

\* Counters that are an optionally signed decimal integer
SignedCounters ==
  {<<"7">>,
   <<"0", "0", "7">>,
   <<"+", "7">>,
   <<"-", "7">>,
   <<"-", "0", "0", "7">>,
   <<"0">>,
   <<"-", "0">>,
   <<"+", "0">>,
   <<"0", "0">>}

\* The counters handed to normalizeCounter
CounterInputs ==
  SignedCounters \cup
  {<<>>,
   <<" ">>,
   <<" ", "1", "2", " ">>,
   <<"v", "2">>,
   <<"1", ".", "5">>,
   <<"-", "-", "1">>,
   <<"+">>,
   <<"7", "a">>}

\* PasswordGenerator.normalizeCounter(counter) and storage.js
\* normalizeCounterValue(counter)
NormalizeCounter(counter) ==
  /\ lastCall' = [op |-> "normalizeCounter", counter |-> counter,
                  normalized |-> normalizeCounter(counter),
                  stored |-> normalizeCounterValue(counter)]
  /\ UNCHANGED <<storeVars, memo, syncVars, runStep, recordedIds, asyncVars>>

\* The recipe details of the default form, with the counter 7
BaseDetails ==
  [algorithm |-> "PBKDF2-SHA256", site |-> SiteFb, counter |-> <<"7">>,
   length |-> 16, policyOn |-> TRUE, compatMode |-> FALSE,
   parameters |-> DEFAULT_PARAMETERS]

\* The values given to a KDF parameter: below, in and above every range, and
\* a value that is no number
ParameterValues == {NaN, 0, 2, 900, 2000, 20000000}

\* The details with one field changed, or none
DetailVariants(details) ==
  {details,
   [details EXCEPT !.algorithm = "Argon2id"],
   [details EXCEPT !.site = SiteGh],
   [details EXCEPT !.counter = <<"8">>],
   [details EXCEPT !.counter = <<"0", "0", "7">>],
   [details EXCEPT !.counter = <<"7", " ">>],
   [details EXCEPT !.length = 17],
   [details EXCEPT !.policyOn = FALSE],
   [details EXCEPT !.compatMode = TRUE]}
  \cup {[details EXCEPT !.parameters[name] = value] :
          name \in DOMAIN details.parameters, value \in ParameterValues}

\* The recipes that are compared with their variants
FirstDetails ==
  {BaseDetails,
   [BaseDetails EXCEPT !.counter = <<"0", "0", "7">>],
   [BaseDetails EXCEPT !.parameters.iterations = 900]}

\* PasswordGenerator.computeRecipeId(first) and computeRecipeId(second)
ComputeRecipeId(first, second) ==
  /\ lastCall' = [op |-> "computeRecipeId", first |-> first, second |-> second,
                  firstId |-> computeRecipeId(first).digest,
                  secondId |-> computeRecipeId(second).digest]
  /\ UNCHANGED <<storeVars, memo, syncVars, runStep, recordedIds, asyncVars>>

\* The values given to a parameter of normalizeParameters: around the ends of
\* the six ranges, and a value that is no number
ParameterProbes ==
  ParameterValues \cup {-5, 1, 3, 4, 7, 8, 9, 24, 25, 999, 1000, 1023, 1024, 4096, 4097,
                        1048576, 1048577, 10000000, 10000001}

\* The parameter sets handed to normalizeParameters: one field of the default
\* set or of the empty set replaced, and all fields given the same value
ParameterInputs ==
  {[base EXCEPT ![name] = value] :
     base \in {DEFAULT_PARAMETERS, MissingParameters},
     name \in DOMAIN DEFAULT_PARAMETERS, value \in ParameterProbes}
  \cup {[name \in DOMAIN DEFAULT_PARAMETERS |-> value] : value \in ParameterProbes}

\* PasswordGenerator.normalizeParameters(parameters), and the same of its result
NormalizeParameters(parameters) ==
  /\ lastCall' = [op |-> "normalizeParameters", parameters |-> parameters,
                  normalized |-> normalizeParameters(parameters),
                  again |-> normalizeParameters(normalizeParameters(parameters))]
  /\ UNCHANGED <<storeVars, memo, syncVars, runStep, recordedIds, asyncVars>>

\* The derived bytes the pairing code is computed from: values that need
\* padding (zero among them) and values above 10^8
CodeMaterials == {<<b1, b2, b3, b4>> : b1 \in {0, 255}, b2 \in {0, 245},
                                       b3 \in {0, 5}, b4 \in {0, 245}}

\* What is typed for an expected code: nothing, blanks, the code, the code
\* with a blank, a digit less and a digit more, a letter among the digits, zeros
TypedFor(code) ==
  {<<>>, <<" ", " ">>, code, Spaced(code), SubSeq(code, 1, Len(code) - 1), code \o <<"0">>,
   [code EXCEPT ![1] = "x"], Zero8}

\* derivePairingCode on four derived bytes, and the checks handleImport makes
\* on the typed code (the envelope carries the expected code)
ConfirmPairingCode(bytes, typed) ==
  /\ lastCall' = [op |-> "pairingCode", material |-> bytes,
                  code |-> PairingCodeOf(bytes), typed |-> typed,
                  status |-> codeChecks(StripWhitespace(typed), PairingCodeOf(bytes),
                                        Some(PairingCodeOf(bytes)))]
  /\ UNCHANGED <<storeVars, memo, syncVars, runStep, recordedIds, asyncVars>>

NextPure ==
  \/ \E first \in FirstDetails :
       \E second \in DetailVariants(first) : ComputeRecipeId(first, second)
  \/ \E hex \in MapHexes, length \in RequestedLengths,
        policyOn \in BOOLEAN, compatMode \in BOOLEAN :
       MapToPassword(hex, length, policyOn, compatMode)
  \/ \E site \in SiteInputs : NormalizeSite(site)
  \/ \E counter \in CounterInputs : NormalizeCounter(counter)
  \/ \E parameters \in ParameterInputs : NormalizeParameters(parameters)
  \/ \E bytes \in CodeMaterials : \E typed \in TypedFor(PairingCodeOf(bytes)) :
       ConfirmPairingCode(bytes, typed)

SpecPure == Init /\ [][NextPure]_vars

\* C15: with policyOn a password that mapToPassword builds for a length in
\* [8, 50] holds an upper-case letter, a lower-case letter, a digit and a
\* symbol (isDiverse is true).
C15_PolicyGivesDiverse ==
  (/\ lastCall.op = "mapToPassword"
   /\ lastCall.generator.policyOn
   /\ lastCall.requested \in MIN_LENGTH..MAX_LENGTH)
  => isDiverse(lastCall.password)

\* C16: the password has min(50, max(8, length)) characters when the length
\* requested from the constructor is an integer, and 16 when it is not.
C16_PasswordLength ==
  lastCall.op = "mapToPassword" =>
    Len(lastCall.password) =
      IF lastCall.requested = NaN THEN 16
      ELSE Min(50, Max(8, lastCall.requested))

\* Lengths below and above the bounds and a length that is no integer have
\* been requested, with the policy on
C16_Witness ==
  /\ lastCall.op = "mapToPassword"
  /\ lastCall.generator.policyOn
  /\ lastCall.requested \in {NaN, 7, 51}
  /\ Len(lastCall.password) \in {8, 16, 50}

\* C17: normalizeSite maps each of facebook, FaceBook, facebook.com,
\* FACEBOOK.com, www.facebook.com and https://www.facebook.com/ to facebook,
\* and generate returns for each the password it returns for facebook; a host
\* that has more than one dot once a leading www. is removed
\* (mail.example.com) keeps its .com.
C17_SiteSpellingsCollapse ==
  lastCall.op = "normalizeSite" =>
    /\ lastCall.site \in FacebookSpellings =>
          /\ lastCall.normalized = <<"f", "a", "c", "e", "b", "o", "o", "k">>
          /\ lastCall.password =
               generate(DefaultGenerator, <<"f", "a", "c", "e", "b", "o", "o", "k">>,
                        Secret1, <<"0">>).password
    /\ lastCall.site \in SubdomainSpellings =>
          lastCall.normalized = <<"m", "a", "i", "l", ".", "e", "x", "a", "m", "p", "l", "e", ".", "c", "o", "m">>

\* The URL spelling has been normalized and a password generated for it
C17_Witness ==
  /\ lastCall.op = "normalizeSite"
  /\ lastCall.site = <<"h", "t", "t", "p", "s", ":", "/", "/", "w", "w", "w", ".", "f", "a", "c", "e", "b", "o", "o", "k", ".", "c", "o", "m", "/">>
  /\ lastCall.normalized = <<"f", "a", "c", "e", "b", "o", "o", "k">>
  /\ Len(lastCall.password) = 16

\* The digits of a counter written with an optional + or - sign
DigitsOfSigned(raw) == IF Head(raw) \in {"+", "-"} THEN Tail(raw) ELSE raw

\* The canonical decimal string of the integer a signed counter denotes
CanonicalInteger(raw) ==
  LET magnitude == StripLeadingZeros(DigitsOfSigned(raw))
  IN  IF Head(raw) = "-" /\ magnitude # <<"0">> THEN <<"-">> \o magnitude
      ELSE magnitude

\* C18: normalizeCounter returns 0 for an empty or blank counter, the
\* canonical decimal string for a counter that is an optionally signed (+ or
\* -) decimal integer, so that 7, 007 and +7 give the same string and so do 0
\* and -0, and any other counter trimmed.
C18_CounterCanonical ==
  lastCall.op = "normalizeCounter" =>
    /\ lastCall.normalized =
         IF Trim(lastCall.counter) = <<>> THEN <<"0">>
         ELSE IF lastCall.counter \in SignedCounters
         THEN CanonicalInteger(lastCall.counter)
         ELSE Trim(lastCall.counter)
    /\ lastCall.stored = lastCall.normalized

\* The details as the signature takes them: the counter through
\* normalizeCounter, the parameters through normalizeParameters
NormalizedDetails(details) ==
  [details EXCEPT !.counter = normalizeCounter(@),
                  !.parameters = normalizeParameters(@)]

\* C19 as stated: two recipes that differ in one of algorithm, site, counter,
\* length, policyOn, compatMode or a KDF parameter have different Recipe IDs,
\* and equal recipes have the same Recipe ID.
C19_AsStated ==
  lastCall.op = "computeRecipeId" =>
    (lastCall.firstId = lastCall.secondId <=> lastCall.first = lastCall.second)

\* C19 amended: two recipes that differ in one field have the same Recipe ID
\* exactly when the field is the counter and both counters normalize to the
\* same string, or the field is a KDF parameter and both values sanitize to
\* the same number; equal recipes have the same Recipe ID.
C19_Amended ==
  lastCall.op = "computeRecipeId" =>
    (lastCall.firstId = lastCall.secondId
       <=> NormalizedDetails(lastCall.first) = NormalizedDetails(lastCall.second))

\* Two recipes that differ in compatMode alone got different ids, after
\* iterations below the range were given
C19_Witness ==
  /\ lastCall.op = "computeRecipeId"
  /\ lastCall.first.compatMode # lastCall.second.compatMode
  /\ lastCall.first.parameters.iterations = 900
  /\ lastCall.second = [lastCall.first EXCEPT !.compatMode = TRUE]
  /\ lastCall.firstId # lastCall.secondId

\* generate throws for the form that handleGenerate read
GenerateFails(form) ==
  With(GenerateInputs(form), LAMBDA in :
    ~generate(in.generator, in.site, in.secret, in.counter).ok)

\* C20: generate fails for a form whose site or secret holds "|", though the
\* key derivation of the same inputs would return a hex; and a handleGenerate
\* whose generate fails (reserved character, or a primitive that throws) shows
\* no password and no recipe id and leaves both stores as they were.
C20_FailedGenerateWritesNothing ==
  [][lastCall'.op = "generate" =>
       /\ lastCall'.form \in PipeForms =>
             /\ GenerateFails(lastCall'.form)
             /\ With(GenerateInputs(lastCall'.form), LAMBDA in :
                   deriveHex(in.generator.algorithm, in.secret,
                             <<normalizeSite(in.site), in.secret, in.counter>>,
                             in.generator.parameters) # None)
       /\ GenerateFails(lastCall'.form) =>
             /\ ~lastCall'.ok
             /\ lastCall'.display.password = <<>>
             /\ lastCall'.display.recipeInfo = None
             /\ UNCHANGED storeVars]_vars

\* A secret with "|" has been refused on a device that holds recipes
C20_Witness ==
  /\ lastCall.op = "generate"
  /\ lastCall.form \in PipeForms
  /\ lastCall.form.site = SiteFb
  /\ ~lastCall.ok
  /\ lastCall.display.error
  /\ registryStore # EmptyStore

(***************************************************************************)
(* The store specification: storage.js under everything that writes the    *)
(* two stores - handleGenerate, the JSON file import of ui.js, the         *)
(* snapshot import of sync.js - with recipes and snapshots that other      *)
(* programs wrote, and exportRegistrySnapshot on the result                *)
(***************************************************************************)
\* The recipe entry handleGenerate hands to recordRecipeUsage for a form
\* (ui.js:229-240)
RecipeOfForm(form) ==
  handleGenerate(Db(EmptyStore, EmptyStore), form, PeerDate).call.recipe

\* A record the single-file version of the program saved (script.js:508-520):
\* the id is 8 characters long, there are no shortId, parameters and version
LegacyRecipe ==
  [RecipeOfForm(FormC) EXCEPT !.id = [legacy8 |-> "FormC"], !.shortId = NoShort,
                              !.parameters = MissingParameters]

\* A recipe whose shortId belongs to another recipe, and one without shortId
WrongShortRecipe ==
  [RecipeOfForm(FormB) EXCEPT !.shortId = Slice8(RecipeOfForm(FormA).id),
                              !.version = 7]

NoShortRecipe == [RecipeOfForm(FormG) EXCEPT !.shortId = NoShort]

\* A recipe as a backup file of a release without the Balloon parameters
\* holds it: parameters is {iterations, argonMem, scryptN}
OldBackupRecipe ==
  [RecipeOfForm(FormB) EXCEPT !.parameters.balloonSpace = NaN,
                              !.parameters.balloonTime = NaN,
                              !.parameters.balloonDelta = NaN]

\* The arrays a JSON file handed to handleImport holds (ui.js:792-797)
RecipeFiles == {<<WrongShortRecipe>>, <<NoShortRecipe, LegacyRecipe>>, <<OldBackupRecipe>>}

\* A snapshot another implementation exported: the sites are not sorted, the
\* version numbers are not dense, a shortId is wrong and one is missing
ForeignSnapshot ==
  [exportedAt |-> PeerDate, sites |-> 2,
   entries |->
     <<[site |-> SiteGh,
        versions |-> <<[RecipeOfForm(FormG) EXCEPT
                          !.shortId = Slice8(RecipeOfForm(FormA).id), !.version = 3]>>],
       [site |-> SiteFb,
        versions |-> <<[RecipeOfForm(FormC) EXCEPT !.version = 5],
                       [RecipeOfForm(FormA) EXCEPT !.shortId = NoShort,
                                                   !.version = 2]>>]>>]

\* A snapshot that holds a version the single-file program saved, without a
\* date and a version number, and the same version a second time
LegacySnapshot ==
  [exportedAt |-> PeerDate, sites |-> 1,
   entries |->
     <<[site |-> SiteFb,
        versions |-> <<[LegacyRecipe EXCEPT !.date = 0, !.version = 0],
                       [RecipeOfForm(FormB) EXCEPT !.version = 0],
                       [LegacyRecipe EXCEPT !.date = 0, !.version = 0]>>]>>]

\* ui.js handleImport: importRecipes(data), then refreshHistoryList
HandleImportFile(recipes) ==
  \E out \in {fetchRecipes(importRecipes(CurrentDb, recipes))} :
      /\ registryStore' = out.registry
      /\ recipeStore' = out.recipes
      /\ lastCall' = [op |-> "importRecipes", recipes |-> recipes]
      /\ UNCHANGED <<memo, syncVars, recordedIds, asyncVars>>

\* ui.js handleClearHistory: clearRecipeHistory() empties the recipe store
\* and leaves the registry
HandleClearHistory ==
  /\ recipeStore' = EmptyStore
  /\ lastCall' = [op |-> "clearHistory"]
  /\ UNCHANGED <<registryStore, memo, syncVars, recordedIds, asyncVars>>

\* exportRegistrySnapshot() on this device, and importRegistrySnapshot of the
\* snapshot on a device whose stores are empty, at a later clock reading
ExportToEmptyDevice(now, later) ==
  \E out \in {exportRegistrySnapshot(CurrentDb, now)} :
      /\ registryStore' = out.db.registry
      /\ recipeStore' = out.db.recipes
      /\ lastCall' = [op |-> "exportToEmpty", snapshot |-> out.snapshot,
                      imported |-> importRegistrySnapshot(Db(EmptyStore, EmptyStore),
                                                          out.snapshot, later).db]
      /\ UNCHANGED <<memo, syncVars, recordedIds, asyncVars>>

\* handleGenerate whose recordRecipeUsage is cut off by a crash after
\* registryStore.setItem and before recipeStore.setItem (storage.js:170-171,
\* 201-202): the registry holds the version, the recipe store holds under the
\* id what it held before.  memo keeps the id.
CrashDate == MaxDate + 1

CrashedRecordRecipeUsage(form, now) ==
  /\ memo = None
  /\ \E recorded \in {recordRecipeUsage(CurrentDb,
                          [RecipeOfForm(form) EXCEPT !.date = now], None)} :
       /\ recorded.db.registry # registryStore
       /\ registryStore' = recorded.db.registry
       /\ recipeStore' =
            IF RecipeOfForm(form).id \in DOMAIN recipeStore
            THEN setItem(recorded.db.recipes, RecipeOfForm(form).id,
                         recipeStore[RecipeOfForm(form).id])
            ELSE removeItem(recorded.db.recipes, RecipeOfForm(form).id)
       /\ memo' = Some([crashed |-> "recordRecipeUsage", id |-> RecipeOfForm(form).id])
       /\ lastCall' = [op |-> "crash"]
       /\ UNCHANGED <<syncVars, recordedIds, asyncVars>>

\* clearAllData cut off by a crash when registryStore.clear() is done and
\* localforage.clear() is not (storage.js:229-231): recipe records without a
\* registry entry
CrashedClearAllData ==
  /\ memo = None
  /\ registryStore # EmptyStore
  /\ RecipeOfForm(FormA).id \in DOMAIN recipeStore
  /\ registryStore' = EmptyStore
  /\ memo' = Some([crashed |-> "clearAllData", id |-> RecipeOfForm(FormA).id])
  /\ lastCall' = [op |-> "crash"]
  /\ UNCHANGED <<recipeStore, syncVars, recordedIds, asyncVars>>

NextStore ==
  \/ HandleGenerate(FormA, MaxDate)
  \/ \E recipes \in RecipeFiles : HandleImportFile(recipes)
  \/ \E snapshot \in {ForeignSnapshot, LegacySnapshot} :
       ImportRegistrySnapshot(snapshot, MaxDate)
  \/ ExportToEmptyDevice(PeerDate, MaxDate)
  \/ HandleClearHistory
  \/ CrashedRecordRecipeUsage(FormA, CrashDate)
  \/ CrashedClearAllData
  \/ HandleResetAppData

SpecStore == Init /\ [][NextStore]_vars

\* Every version of a list of versions carries the first 8 characters of its
\* id as its shortId
ShortIdsAgree(versions) ==
  \A i \in 1..Len(versions) : versions[i].shortId = Slice8(versions[i].id)

\* C21: every version in the registry store and every record in the recipe
\* store, as recordRecipeUsage and importRegistrySnapshot wrote them, and
\* every version of a snapshot exportRegistrySnapshot returned, has shortId
\* equal to the first 8 characters of its id.
C21_ShortIdIsIdPrefix ==
  /\ \A site \in DOMAIN registryStore : ShortIdsAgree(registryStore[site].versions)
  /\ \A key \in DOMAIN recipeStore : ShortIdsAgree(<<recipeStore[key]>>)
  /\ lastCall.op = "exportToEmpty" =>
       \A i \in 1..Len(lastCall.snapshot.entries) :
         ShortIdsAgree(lastCall.snapshot.entries[i].versions)

\* The recipes that came with a wrong shortId and without one, from the file
\* and from the foreign snapshot, are stored and have been exported
C21_Witness ==
  /\ lastCall.op = "exportToEmpty"
  /\ lastCall.snapshot.sites = 2
  /\ WrongShortRecipe.id \in DOMAIN recipeStore
  /\ RecipeOfForm(FormG).id \in DOMAIN recipeStore
  /\ \E i \in 1..Len(registryStore[SiteFb].versions) :
       registryStore[SiteFb].versions[i].id = RecipeOfForm(FormA).id

C23_ExportImportRoundTrip ==
  lastCall.op = "exportToEmpty" => lastCall.imported.registry = registryStore

\* The place of the version with the id in a list of versions, 0 for none
PlaceOfId(versions, id) ==
  IF \E i \in 1..Len(versions) : versions[i].id = id
  THEN CHOOSE i \in 1..Len(versions) : versions[i].id = id
  ELSE 0

\* The versions of the site in a registry store, none without an entry
VersionsOf(registry, site) ==
  IF site \in DOMAIN registry THEN registry[site].versions ELSE <<>>

\* C24: whatever the recipe store holds - after a crash between the registry
\* write and the recipe write of recordRecipeUsage, or with a recipe record
\* that has no registry entry - recordRecipeUsage takes the version number
\* from the registry list alone (the number of the listed version with the
\* id, else the list's length plus 1), writes the recipe record with that
\* number, and the id is in the list once.
C24_RegistryDecidesVersion ==
  [][(lastCall'.op = "generate" /\ lastCall'.ok) =>
       LET id == lastCall'.recipeId
           before == VersionsOf(registryStore, lastCall'.recipe.site)
           after == VersionsOf(registryStore', lastCall'.recipe.site)
       IN  /\ Cardinality({i \in 1..Len(after) : after[i].id = id}) = 1
           /\ IF PlaceOfId(before, id) # 0
              THEN /\ after = before
                   /\ recipeStore'[id].version = before[PlaceOfId(before, id)].version
              ELSE /\ Len(after) = Len(before) + 1
                   /\ SubSeq(after, 1, Len(before)) = before
                   /\ after[Len(after)].id = id
                   /\ after[Len(after)].version = Len(before) + 1
                   /\ recipeStore'[id].version = Len(before) + 1]_vars

\* recordRecipeUsage was cut off after its registry write, and a later
\* handleGenerate of the same recipe matched the version the cut-off call
\* listed and wrote the recipe record with its number
C24_Witness ==
  /\ memo # None
  /\ memo[1].crashed = "recordRecipeUsage"
  /\ lastCall.op = "generate" /\ lastCall.ok
  /\ lastCall.recipeId = memo[1].id
  /\ lastCall.result.matchedVersion # None
  /\ lastCall.result.matchedVersion[1].date = CrashDate
  /\ lastCall.result.matchedVersion[1].version >= 2
  /\ recipeStore[memo[1].id].date = MaxDate
  /\ recipeStore[memo[1].id].version = lastCall.result.matchedVersion[1].version

\* The range of each of the six parameters
ParameterRanges ==
  [iterations |-> 1000..10000000, argonMem |-> 8..4096, scryptN |-> 1024..1048576,
   balloonSpace |-> 4..4096, balloonTime |-> 1..24, balloonDelta |-> 1..8]

\* C26: normalizeParameters returns each of the six fields within its range
\* (iterations 1000..10000000, argonMem 8..4096, scryptN 1024..1048576,
\* balloonSpace 4..4096, balloonTime 1..24, balloonDelta 1..8); a field that
\* is missing or not a number becomes its default (100000, 64, 16384, 64, 3,
\* 3); normalizing the result returns the same values.
C26_ParametersInRange ==
  lastCall.op = "normalizeParameters" =>
    /\ DOMAIN lastCall.normalized =
         {"iterations", "argonMem", "scryptN", "balloonSpace", "balloonTime", "balloonDelta"}
    /\ \A name \in DOMAIN lastCall.normalized :
         /\ lastCall.normalized[name] >= 1
         /\ lastCall.normalized[name] \in ParameterRanges[name]
         /\ lastCall.parameters[name] = NaN =>
              lastCall.normalized[name] =
                [iterations |-> 100000, argonMem |-> 64, scryptN |-> 16384,
                 balloonSpace |-> 64, balloonTime |-> 3, balloonDelta |-> 3][name]
         /\ lastCall.parameters[name] \in ParameterRanges[name] =>
              lastCall.normalized[name] = lastCall.parameters[name]
    /\ lastCall.again = lastCall.normalized

\* A set with a value above its range, and the empty set, have been normalized
C26_Witness ==
  /\ lastCall.op = "normalizeParameters"
  /\ \/ /\ lastCall.parameters.balloonDelta = 9
        /\ lastCall.normalized.balloonDelta = 8
        /\ lastCall.parameters.iterations = NaN
        /\ lastCall.normalized.iterations = 100000
     \/ /\ lastCall.parameters.iterations = 10000001
        /\ lastCall.normalized.iterations = 10000000

(***************************************************************************)
(* The scanner specification: the QR scanner of the quick import, one      *)
(* action for each piece of code between two awaits                        *)
(***************************************************************************)
\* The camera streams getUserMedia may open, and the animation frames
\* requestAnimationFrame may hand out, in one behaviour
MaxStreams == 2
MaxFrames == 3

\* The sequence without its i-th element
RemoveAt(seq, i) == SubSeq(seq, 1, i - 1) \o SubSeq(seq, i + 1, Len(seq))

\* requestAnimationFrame(scanQuickFrame): the id of the frame requested
requestAnimationFrame(b) ==
  [id |-> b.requested + 1,
   browser |-> [b EXCEPT !.requested = @ + 1, !.frames = @ \cup {b.requested + 1}]]

\* cancelAnimationFrame(id)
cancelAnimationFrame(b, id) == [b EXCEPT !.frames = @ \ {id}]

\* closeQuickScanner(): the frame id is cancelled, the tracks of
\* quickScannerStream are stopped, the overlay is hidden
closeQuickScanner(scanner, b) ==
  [scanner |-> ClosedScanner,
   browser |-> [(IF scanner.quickScannerFrameId # 0
                   THEN cancelAnimationFrame(b, scanner.quickScannerFrameId) ELSE b)
                 EXCEPT !.live = IF scanner.quickScannerStream # 0
                                   THEN @ \ {scanner.quickScannerStream} ELSE @]]

\* handleQuickScan up to its await of getUserMedia
HandleQuickScan ==
  /\ ~quickScanner.isQuickScannerActive
  /\ browser.opened + Len(SelectSeq(calls, LAMBDA c : c.at = "getUserMedia")) < MaxStreams
  /\ quickScanner' = [quickScanner EXCEPT !.hidden = FALSE]
  /\ calls' = Append(calls, [fn |-> "handleQuickScan", at |-> "getUserMedia"])
  /\ lastCall' = [op |-> "handleQuickScan"]
  /\ UNCHANGED <<storeVars, memo, syncVars, recordedIds, browser, uiVars>>

\* handleQuickScan from getUserMedia to its await of video.play(); when the
\* camera is refused, its catch block
GetUserMediaSettled(i, granted) ==
  /\ calls[i].at = "getUserMedia"
  /\ IF granted
       THEN /\ quickScanner' = [quickScanner EXCEPT !.quickScannerStream = browser.opened + 1,
                                                    !.isQuickScannerActive = TRUE]
            /\ browser' = [browser EXCEPT !.opened = @ + 1, !.live = @ \cup {browser.opened + 1}]
            /\ calls' = [calls EXCEPT ![i].at = "play"]
       ELSE /\ quickScanner' = closeQuickScanner(quickScanner, browser).scanner
            /\ browser' = closeQuickScanner(quickScanner, browser).browser
            /\ calls' = RemoveAt(calls, i)
  /\ lastCall' = [op |-> "getUserMedia", granted |-> granted]
  /\ UNCHANGED <<storeVars, memo, syncVars, recordedIds, uiVars>>

\* handleQuickScan after video.play(): the first frame is requested; when
\* play() rejects, its catch block
PlaySettled(i, playing) ==
  /\ calls[i].at = "play"
  /\ playing => browser.requested < MaxFrames
  /\ IF playing
       THEN /\ quickScanner' =
                 [quickScanner EXCEPT !.quickScannerFrameId = requestAnimationFrame(browser).id]
            /\ browser' = requestAnimationFrame(browser).browser
       ELSE /\ quickScanner' = closeQuickScanner(quickScanner, browser).scanner
            /\ browser' = closeQuickScanner(quickScanner, browser).browser
  /\ calls' = RemoveAt(calls, i)
  /\ lastCall' = [op |-> "play", playing |-> playing]
  /\ UNCHANGED <<storeVars, memo, syncVars, recordedIds, uiVars>>

\* scanQuickFrame, called by the browser for a requested frame, up to its
\* await of detect(); ready: quickScannerVideo.readyState >= 2
ScanQuickFrame(frame, ready) ==
  /\ frame \in browser.frames
  /\ (quickScanner.isQuickScannerActive /\ ~ready) => browser.requested < MaxFrames
  /\ IF ~quickScanner.isQuickScannerActive
       THEN /\ browser' = [browser EXCEPT !.frames = @ \ {frame}]
            /\ UNCHANGED <<quickScanner, calls, uiVars>>
       ELSE IF ~ready
         THEN /\ quickScanner' =
                   [quickScanner EXCEPT !.quickScannerFrameId =
                      requestAnimationFrame([browser EXCEPT !.frames = @ \ {frame}]).id]
              /\ browser' = requestAnimationFrame([browser EXCEPT !.frames = @ \ {frame}]).browser
              /\ UNCHANGED calls
         ELSE /\ browser' = [browser EXCEPT !.frames = @ \ {frame}]
              /\ calls' = Append(calls, [fn |-> "scanQuickFrame", at |-> "detect"])
              /\ UNCHANGED quickScanner
  /\ lastCall' = [op |-> "scanQuickFrame", frame |-> frame]
  /\ UNCHANGED <<storeVars, memo, syncVars, recordedIds, uiVars>>

\* scanQuickFrame after detect(): a hit closes the scanner, no hit and a
\* rejected detect() request the next frame
DetectSettled(i, hit) ==
  /\ calls[i].at = "detect"
  /\ ~hit => browser.requested < MaxFrames
  /\ IF hit
       THEN /\ quickScanner' = closeQuickScanner(quickScanner, browser).scanner
            /\ browser' = closeQuickScanner(quickScanner, browser).browser
       ELSE /\ quickScanner' =
                 [quickScanner EXCEPT !.quickScannerFrameId = requestAnimationFrame(browser).id]
            /\ browser' = requestAnimationFrame(browser).browser
  /\ calls' = RemoveAt(calls, i)
  /\ lastCall' = [op |-> "detect", hit |-> hit]
  /\ UNCHANGED <<storeVars, memo, syncVars, recordedIds, uiVars>>

\* closeQuickScanner() of the close button, the Escape key, a click on the
\* backdrop and closeModal
CloseQuickScanner ==
  /\ quickScanner' = closeQuickScanner(quickScanner, browser).scanner
  /\ browser' = closeQuickScanner(quickScanner, browser).browser
  /\ lastCall' = [op |-> "closeQuickScanner"]
  /\ UNCHANGED <<storeVars, memo, syncVars, recordedIds, calls, uiVars>>

NextScan ==
  \/ HandleQuickScan
  \/ \E i \in DOMAIN calls, granted \in BOOLEAN : GetUserMediaSettled(i, granted)
  \/ \E i \in DOMAIN calls, playing \in BOOLEAN : PlaySettled(i, playing)
  \/ \E frame \in 1..MaxFrames, ready \in BOOLEAN : ScanQuickFrame(frame, ready)
  \/ \E i \in DOMAIN calls, hit \in BOOLEAN : DetectSettled(i, hit)
  \/ CloseQuickScanner

SpecScan == Init /\ [][NextScan]_vars

\* C25: in every state in which the scanner is closed, no camera stream is
\* live and no scan frame is requested, also when the scanner was closed
\* while handleQuickScan awaited the camera or scanQuickFrame a detection.
C25_ClosedScannerHoldsNothing ==
  quickScanner.hidden => (browser.live = {} /\ browser.frames = {})

(***************************************************************************)
(* The overlap specification: handleGenerate calls for one site that are   *)
(* suspended at their awaits while another call runs                       *)
(***************************************************************************)
\* The handleGenerate calls that may be in flight together
MaxCalls == 2

\* Two forms for the same site that differ in the counter
OverlapForms == {FormA, FormB}

\* handleGenerate up to its await of getRegistryEntry: the form is read, the
\* password and the recipe id are computed (ui.js:131-226)
BeginGenerate(form) ==
  /\ Len(calls) < MaxCalls
  /\ calls' = Append(calls, [fn |-> "handleGenerate", at |-> "getRegistryEntry",
                            recipe |-> RecipeOfForm(form),
                            existingRegistry |-> None, seen |-> EmptyStore])
  /\ lastCall' = [op |-> "handleGenerate", form |-> form]
  /\ UNCHANGED <<storeVars, memo, syncVars, recordedIds, quickScanner, browser, uiVars>>

\* getRegistryEntry(normalizedSite) resolves: existingRegistry is what the
\* registry holds now; recordRecipeUsage starts and, given an entry, goes on
\* to its write, given none, to its own read (ui.js:228-242, storage.js:163-165)
GetRegistryEntryResolved(i, now) ==
  /\ calls[i].at = "getRegistryEntry"
  /\ \E looked \in {getRegistryEntry(CurrentDb, calls[i].recipe.site)} :
       /\ registryStore' = looked.db.registry
       /\ recipeStore' = looked.db.recipes
       /\ calls' = [calls EXCEPT
                      ![i].at = IF looked.entry = None THEN "registryStore.getItem"
                                ELSE "registryStore.setItem",
                      ![i].recipe.date = now,
                      ![i].existingRegistry = looked.entry,
                      ![i].seen = looked.db.registry]
  /\ lastCall' = [op |-> "getRegistryEntry", site |-> calls[i].recipe.site]
  /\ UNCHANGED <<memo, syncVars, recordedIds, quickScanner, browser, uiVars>>

\* registryStore.getItem(baseEntry.site) of recordRecipeUsage resolves
\* (storage.js:165)
RegistryGetItemResolved(i) ==
  /\ calls[i].at = "registryStore.getItem"
  /\ calls' = [calls EXCEPT ![i].at = "registryStore.setItem", ![i].seen = registryStore]
  /\ lastCall' = [op |-> "registryStore.getItem", site |-> calls[i].recipe.site]
  /\ UNCHANGED <<storeVars, memo, syncVars, recordedIds, quickScanner, browser, uiVars>>

\* recordRecipeUsage from the registry it has read to its end: the version
\* is decided on what was read, the site's entry and the recipe record are
\* written into the stores as they are now (storage.js:167-210); then
\* refreshHistoryList (ui.js:245)
RecordRecipeUsageResolved(i) ==
  /\ calls[i].at = "registryStore.setItem"
  /\ \E out \in {recordRecipeUsage(Db(calls[i].seen, recipeStore), calls[i].recipe,
                                   calls[i].existingRegistry)} :
       \E after \in {fetchRecipes(
                       Db(IF getItem(out.db.registry, calls[i].recipe.site)
                               = getItem(calls[i].seen, calls[i].recipe.site)
                            THEN registryStore
                            ELSE setItem(registryStore, calls[i].recipe.site,
                                         out.db.registry[calls[i].recipe.site]),
                          out.db.recipes))} :
         /\ registryStore' = after.registry
         /\ recipeStore' = after.recipes
         /\ lastCall' = [op |-> "recordRecipeUsage", recipe |-> calls[i].recipe,
                         result |-> out.result]
  /\ recordedIds' = Record(recordedIds, calls[i].recipe.site, {calls[i].recipe.id})
  /\ calls' = RemoveAt(calls, i)
  /\ UNCHANGED <<memo, syncVars, quickScanner, browser, uiVars>>

NextOverlap ==
  \/ \E form \in OverlapForms : BeginGenerate(form)
  \/ \E i \in DOMAIN calls : GetRegistryEntryResolved(i, MaxDate)
  \/ \E i \in DOMAIN calls : RegistryGetItemResolved(i)
  \/ \E i \in DOMAIN calls : RecordRecipeUsageResolved(i)

SpecOverlap == Init /\ [][NextOverlap]_vars

\* C27: when handleGenerate calls for one site with different recipe ids
\* overlap at their awaits, every recipe is in the site's version list when
\* the calls have ended, and no version number is given to two recipes.
C27_OverlappingGeneratesKeepBoth ==
  calls = <<>> =>
    \A site \in DOMAIN recordedIds :
      /\ site \in DOMAIN registryStore
      /\ recordedIds[site] \subseteq IdSet(registryStore[site].versions)
      /\ \A i, j \in 1..Len(registryStore[site].versions) :
           i # j => registryStore[site].versions[i].version
                      # registryStore[site].versions[j].version
      /\ \A id \in recordedIds[site] :
           \A other \in recordedIds[site] \ {id} :
             (id \in DOMAIN recipeStore /\ other \in DOMAIN recipeStore) =>
               recipeStore[id].version # recipeStore[other].version

\* C28: sendState.finalPayload and sendState.code are empty in every state
\* before a response with the session ID of the offer and the right proof
\* has been processed, and after every response that was rejected.
C28_DataEnvelopeOnlyAfterVerifiedResponse ==
  /\ lastCall.op \in {"none", "prepareSendOffer"} =>
       (sendState.finalPayload = EmptyText /\ sendState.code = <<>>)
  /\ (lastCall.op = "handleProcessResponse"
        /\ lastCall.status # "Ready to share encrypted bundle.") =>
       (sendState.finalPayload = EmptyText /\ sendState.code = <<>>)

(***************************************************************************)
(* The pairing-dialog specification: the paired dialog of one device, one  *)
(* action for each piece of code between two awaits                        *)
(***************************************************************************)
\* The session IDs generateSessionId() draws
DialogSessions == SessionIds \cup {OtherSession}

\* The response an honest receiver gives to the offer of a session
ResponseFor(sessionId) ==
  handleProcessOffer(resetReceiveState,
                     prepareSendOffer(OtherSnapshot, SenderScalar, sessionId).offerPayload,
                     ReceiverScalar).receive.responsePayload

\* What is pasted into the response input
DialogResponses == {ResponseFor(sessionId) : sessionId \in DialogSessions}

\* The calls of a function that are suspended
Suspended(fn) == SelectSeq(calls, LAMBDA c : c.fn = fn)

\* A faulty variant of BeginPrepareSendOffer: isPreparingOffer is not read
BeginPrepareSendOfferUnguarded ==
  /\ sendState' = resetSendState
  /\ syncUi' = [syncUi EXCEPT !.modalHidden = FALSE, !.isPreparingOffer = TRUE]
  /\ calls' = Append(calls, [fn |-> "prepareSendOffer", at |-> "exportRegistrySnapshot"])

\* prepareSendOffer() up to its first await: unless a call is preparing, the
\* session is reset and the call suspended
BeginPrepareSendOffer ==
  IF syncUi.isPreparingOffer
  THEN UNCHANGED <<sendState, calls>> /\ syncUi' = [syncUi EXCEPT !.modalHidden = FALSE]
  ELSE /\ sendState' = resetSendState
       /\ syncUi' = [syncUi EXCEPT !.modalHidden = FALSE, !.isPreparingOffer = TRUE]
       /\ calls' = Append(calls, [fn |-> "prepareSendOffer", at |-> "exportRegistrySnapshot"])

\* openModal(): switchMode('send')
OpenModal ==
  /\ syncUi.modalHidden
  /\ Len(calls) < MaxCalls
  /\ receiveState' = resetReceiveState
  /\ BeginPrepareSendOffer
  /\ lastCall' = [op |-> "openModal"]
  /\ UNCHANGED <<storeVars, memo, runStep, recordedIds, quickScanner, browser, quickState>>

\* A click on Regenerate: prepareSendOffer()
HandleRegenerate ==
  /\ ~syncUi.modalHidden
  /\ Len(calls) < MaxCalls
  /\ BeginPrepareSendOffer
  /\ lastCall' = [op |-> "regenerate"]
  /\ UNCHANGED <<storeVars, memo, receiveState, runStep, recordedIds, quickScanner, browser,
                 quickState>>

\* switchMode(mode) by a click on a mode button
SwitchMode(mode) ==
  /\ ~syncUi.modalHidden
  /\ Len(calls) < MaxCalls
  /\ IF mode = "receive"
       THEN sendState' = resetSendState /\ UNCHANGED <<receiveState, syncUi, calls>>
       ELSE receiveState' = resetReceiveState /\ BeginPrepareSendOffer
  /\ lastCall' = [op |-> "switchMode", mode |-> mode]
  /\ UNCHANGED <<storeVars, memo, runStep, recordedIds, quickScanner, browser, quickState>>

\* prepareSendOffer after exportRegistrySnapshot, generateKey and exportKey:
\* the five fields of the offer are written
PrepareSendOfferResolved(i, snapshot, sessionId) ==
  /\ calls[i].fn = "prepareSendOffer" /\ calls[i].at = "exportRegistrySnapshot"
  /\ \E offer \in {prepareSendOffer(snapshot, SenderScalar, sessionId)} :
       sendState' = [sendState EXCEPT !.keyPair = offer.keyPair,
                                      !.sessionId = offer.sessionId,
                                      !.snapshot = offer.snapshot,
                                      !.stats = offer.stats,
                                      !.offerPayload = offer.offerPayload]
  /\ calls' = [calls EXCEPT ![i].at = "renderQrCode"]
  /\ lastCall' = [op |-> "prepareSendOffer"]
  /\ UNCHANGED <<storeVars, memo, receiveState, runStep, recordedIds, quickScanner, browser,
                 uiVars>>

\* prepareSendOffer after renderQrCode: its finally block
PrepareSendOfferEnded(i) ==
  /\ calls[i].fn = "prepareSendOffer" /\ calls[i].at = "renderQrCode"
  /\ syncUi' = [syncUi EXCEPT !.isPreparingOffer = FALSE]
  /\ calls' = RemoveAt(calls, i)
  /\ lastCall' = [op |-> "prepareSendOffer ended"]
  /\ UNCHANGED <<storeVars, memo, syncVars, recordedIds, quickScanner, browser, quickState>>

\* prepareSendOffer when an awaited call rejects: its catch block sets the
\* status, its finally block clears the flag
PrepareSendOfferFailed(i) ==
  /\ calls[i].fn = "prepareSendOffer"
  /\ syncUi' = [syncUi EXCEPT !.isPreparingOffer = FALSE]
  /\ calls' = RemoveAt(calls, i)
  /\ lastCall' = [op |-> "prepareSendOffer failed"]
  /\ UNCHANGED <<storeVars, memo, syncVars, recordedIds, quickScanner, browser, quickState>>

\* handleProcessResponse up to its first await: the checks made at once
HandleProcessResponseBegun(raw) ==
  /\ ~syncUi.modalHidden
  /\ Len(calls) < MaxCalls
  /\ Suspended("handleProcessResponse") = <<>>
  /\ sendState.keyPair # None /\ sendState.sessionId # <<>> /\ sendState.snapshot # None
  /\ decodeEnvelope(raw).error = ""
  /\ Field(EnvelopeOf(raw), "t") = Some("response")
  /\ Field(EnvelopeOf(raw), "session") = Some(sendState.sessionId)
  /\ Field(EnvelopeOf(raw), "receiverPub") # None
  /\ calls' = Append(calls, [fn |-> "handleProcessResponse", at |-> "importRawPublicKey",
                            envelope |-> EnvelopeOf(raw)])
  /\ lastCall' = [op |-> "handleProcessResponse", raw |-> raw]
  /\ UNCHANGED <<storeVars, memo, syncVars, recordedIds, quickScanner, browser, uiVars>>

\* The call ends in its catch block or at a return: only the status is set
ResponseCallEnds(i, status) ==
  /\ calls' = RemoveAt(calls, i)
  /\ lastCall' = [op |-> "handleProcessResponse ended", status |-> status]
  /\ UNCHANGED sendState

\* after importRawPublicKey: sendState.keyPair.privateKey is read
ImportRawPublicKeyResolved(i) ==
  /\ calls[i].fn = "handleProcessResponse" /\ calls[i].at = "importRawPublicKey"
  /\ IF importRawPublicKey(fromBase64(calls[i].envelope.receiverPub)) = None
          \/ sendState.keyPair = None
       THEN ResponseCallEnds(i, "Failed to process response")
       ELSE /\ calls' = [calls EXCEPT ![i] =
                 [fn |-> "handleProcessResponse", at |-> "deriveSharedSecret",
                  envelope |-> calls[i].envelope,
                  secretBytes |-> deriveSharedSecret(
                    sendState.keyPair[1].privateKey,
                    importRawPublicKey(fromBase64(calls[i].envelope.receiverPub))[1])]]
            /\ lastCall' = [op |-> "importRawPublicKey"]
            /\ UNCHANGED sendState
  /\ UNCHANGED <<storeVars, memo, receiveState, runStep, recordedIds, quickScanner, browser,
                 uiVars>>

\* after deriveSharedSecret: sendState.sessionId is read for the proof
DeriveSharedSecretResolved(i) ==
  /\ calls[i].fn = "handleProcessResponse" /\ calls[i].at = "deriveSharedSecret"
  /\ calls' = [calls EXCEPT ![i] =
       [fn |-> "handleProcessResponse", at |-> "deriveProof",
        envelope |-> calls[i].envelope, secretBytes |-> calls[i].secretBytes,
        proof |-> deriveProof(calls[i].secretBytes, sendState.sessionId)]]
  /\ lastCall' = [op |-> "deriveSharedSecret"]
  /\ UNCHANGED <<storeVars, memo, syncVars, recordedIds, quickScanner, browser, uiVars>>

\* after deriveProof: the proof is compared; sendState.sessionId is read for
\* the pairing code, the salt is drawn and the key derived
DeriveProofResolved(i) ==
  /\ calls[i].fn = "handleProcessResponse" /\ calls[i].at = "deriveProof"
  /\ IF Field(calls[i].envelope, "proof") # Some(calls[i].proof)
       THEN ResponseCallEnds(i, "Response integrity check failed. Ask the receiver to regenerate.")
       ELSE /\ calls' = [calls EXCEPT ![i] =
                 [fn |-> "handleProcessResponse", at |-> "deriveAesKey",
                  code |-> derivePairingCode(calls[i].secretBytes, sendState.sessionId),
                  aesKey |-> deriveAesKey(calls[i].secretBytes, KeySalt)]]
            /\ lastCall' = [op |-> "deriveProof"]
            /\ UNCHANGED sendState
  /\ UNCHANGED <<storeVars, memo, receiveState, runStep, recordedIds, quickScanner, browser,
                 uiVars>>

\* after deriveAesKey: sendState.snapshot is read and encrypted
DeriveAesKeyResolved(i) ==
  /\ calls[i].fn = "handleProcessResponse" /\ calls[i].at = "deriveAesKey"
  /\ calls' = [calls EXCEPT ![i] =
       [fn |-> "handleProcessResponse", at |-> "encryptSnapshot", code |-> calls[i].code,
        encrypted |-> encryptSnapshot(IF sendState.snapshot = None THEN None
                                      ELSE sendState.snapshot[1],
                                      calls[i].aesKey, Iv)]]
  /\ lastCall' = [op |-> "deriveAesKey"]
  /\ UNCHANGED <<storeVars, memo, syncVars, recordedIds, quickScanner, browser, uiVars>>

\* after encryptSnapshot: the data envelope is built from sendState as it is
\* now, and finalPayload and code are written
EncryptSnapshotResolved(i) ==
  /\ calls[i].fn = "handleProcessResponse" /\ calls[i].at = "encryptSnapshot"
  /\ IF sendState.snapshot = None
       THEN ResponseCallEnds(i, "Failed to process response")
       ELSE /\ sendState' =
                 [sendState EXCEPT
                    !.finalPayload = encodeEnvelope(
                       [v |-> PAYLOAD_VERSION, t |-> "data", session |-> sendState.sessionId,
                        iv |-> toBase64(calls[i].encrypted.iv),
                        c |-> toBase64(calls[i].encrypted.ciphertext),
                        h |-> toBase64(calls[i].encrypted.digest),
                        salt |-> toBase64(KeySalt), auth |-> calls[i].code,
                        meta |-> [exportedAt |-> sendState.snapshot[1].exportedAt,
                                  sites |-> IF sendState.stats = None THEN 0
                                            ELSE sendState.stats[1].sites,
                                  versions |-> countVersions(sendState.stats)]]),
                    !.code = calls[i].code]
            /\ calls' = RemoveAt(calls, i)
            /\ lastCall' = [op |-> "handleProcessResponse ended",
                            status |-> "Ready to share encrypted bundle."]
  /\ UNCHANGED <<storeVars, memo, receiveState, runStep, recordedIds, quickScanner, browser,
                 uiVars>>

\* closeModal() of the paired dialog
CloseModal ==
  /\ ~syncUi.modalHidden
  /\ syncUi' = [syncUi EXCEPT !.modalHidden = TRUE]
  /\ sendState' = resetSendState
  /\ receiveState' = resetReceiveState
  /\ lastCall' = [op |-> "closeModal"]
  /\ UNCHANGED <<storeVars, memo, runStep, recordedIds, quickScanner, browser, calls,
                 quickState>>

\* The offers another device shows
DialogOffers ==
  {prepareSendOffer(OtherSnapshot, IntruderScalar, sessionId).offerPayload :
     sessionId \in DialogSessions}

\* handleProcessOffer up to its first await: the checks made at once
HandleProcessOfferBegun(raw) ==
  /\ ~syncUi.modalHidden
  /\ Len(calls) < MaxCalls
  /\ decodeEnvelope(raw).error = ""
  /\ Field(EnvelopeOf(raw), "t") = Some("offer")
  /\ Field(EnvelopeOf(raw), "senderPub") # None
  /\ calls' = Append(calls, [fn |-> "handleProcessOffer", at |-> "importRawPublicKey",
                            raw |-> raw])
  /\ lastCall' = [op |-> "handleProcessOffer", raw |-> raw]
  /\ UNCHANGED <<storeVars, memo, syncVars, recordedIds, quickScanner, browser, uiVars>>

\* handleProcessOffer after its awaits: the five fields of receiveState are
\* written; its catch block resets them
HandleProcessOfferResolved(i) ==
  /\ calls[i].fn = "handleProcessOffer"
  /\ \E out \in {handleProcessOffer(receiveState, calls[i].raw, ReceiverScalar)} :
       /\ receiveState' = out.receive
       /\ lastCall' = [op |-> "handleProcessOffer ended", status |-> out.status]
  /\ calls' = RemoveAt(calls, i)
  /\ UNCHANGED <<storeVars, memo, sendState, runStep, recordedIds, quickScanner, browser,
                 uiVars>>

RECURSIVE formatQuickPassphrase(_)
\* formatQuickPassphrase(compact): groups of four joined by '-'
formatQuickPassphrase(compact) ==
  IF Len(compact) <= 4 THEN compact
  ELSE SubSeq(compact, 1, 4) \o <<"-">> \o formatQuickPassphrase(Drop(compact, 4))

\* prepareQuickBundle({regenerate}) up to its first await: unless a call is
\* preparing, the call is suspended
BeginPrepareQuickBundle(regenerate) ==
  IF syncUi.isPreparingQuickBundle
  THEN UNCHANGED calls /\ syncUi' = [syncUi EXCEPT !.quickModalHidden = FALSE]
  ELSE /\ syncUi' = [syncUi EXCEPT !.quickModalHidden = FALSE,
                                   !.isPreparingQuickBundle = TRUE]
       /\ calls' = Append(calls, [fn |-> "prepareQuickBundle",
                                  at |-> "exportRegistrySnapshot",
                                  regenerate |-> regenerate])

\* openModal() of the quick dialog: resetQuickState(), switchMode('send')
OpenQuickModal ==
  /\ syncUi.quickModalHidden
  /\ Len(calls) < MaxCalls
  /\ quickState' = resetQuickState
  /\ BeginPrepareQuickBundle(FALSE)
  /\ lastCall' = [op |-> "openModal (quick)"]
  /\ UNCHANGED <<storeVars, memo, syncVars, recordedIds, quickScanner, browser>>

\* A click on Regenerate in the quick dialog
HandleQuickRegenerate ==
  /\ ~syncUi.quickModalHidden
  /\ Len(calls) < MaxCalls
  /\ BeginPrepareQuickBundle(TRUE)
  /\ lastCall' = [op |-> "handleQuickRegenerate"]
  /\ UNCHANGED <<storeVars, memo, syncVars, recordedIds, quickScanner, browser, quickState>>

\* prepareQuickBundle after exportRegistrySnapshot: quickState.passphrase is
\* read, a passphrase is drawn when there is none or on regenerate
QuickExportResolved(i, drawn) ==
  /\ calls[i].fn = "prepareQuickBundle" /\ calls[i].at = "exportRegistrySnapshot"
  /\ calls' = [calls EXCEPT ![i] =
       [fn |-> "prepareQuickBundle", at |-> "encodeQuickPayload",
        compactPassphrase |->
          ensureQuickPassphrase(IF quickState.passphrase = <<>> \/ calls[i].regenerate
                                THEN drawn ELSE quickState.passphrase)[1]]]
  /\ lastCall' = [op |-> "exportRegistrySnapshot (quick)"]
  /\ UNCHANGED <<storeVars, memo, syncVars, recordedIds, quickScanner, browser, uiVars>>

\* prepareQuickBundle after encodeQuickPayload: quickState is written
QuickEncodeResolved(i) ==
  /\ calls[i].fn = "prepareQuickBundle" /\ calls[i].at = "encodeQuickPayload"
  /\ quickState' = [passphrase |-> formatQuickPassphrase(calls[i].compactPassphrase),
                    payload |-> encodeQuickPayload(QuickSnapshot, calls[i].compactPassphrase,
                                                   KeySalt, Iv),
                    stats |-> Some(QuickSnapshot)]
  /\ calls' = [calls EXCEPT ![i] = [fn |-> "prepareQuickBundle", at |-> "renderQrCode"]]
  /\ lastCall' = [op |-> "encodeQuickPayload"]
  /\ UNCHANGED <<storeVars, memo, syncVars, recordedIds, quickScanner, browser, syncUi>>

\* prepareQuickBundle after renderQrCode: its finally block
PrepareQuickBundleEnded(i) ==
  /\ calls[i].fn = "prepareQuickBundle" /\ calls[i].at = "renderQrCode"
  /\ syncUi' = [syncUi EXCEPT !.isPreparingQuickBundle = FALSE]
  /\ calls' = RemoveAt(calls, i)
  /\ lastCall' = [op |-> "prepareQuickBundle ended"]
  /\ UNCHANGED <<storeVars, memo, syncVars, recordedIds, quickScanner, browser, quickState>>

\* prepareQuickBundle when an awaited call rejects: its catch block sets the
\* status, its finally block clears the flag
PrepareQuickBundleFailed(i) ==
  /\ calls[i].fn = "prepareQuickBundle"
  /\ syncUi' = [syncUi EXCEPT !.isPreparingQuickBundle = FALSE]
  /\ calls' = RemoveAt(calls, i)
  /\ lastCall' = [op |-> "prepareQuickBundle failed"]
  /\ UNCHANGED <<storeVars, memo, syncVars, recordedIds, quickScanner, browser, quickState>>

\* closeModal() of the quick dialog
CloseQuickModal ==
  /\ ~syncUi.quickModalHidden
  /\ syncUi' = [syncUi EXCEPT !.quickModalHidden = TRUE]
  /\ quickScanner' = closeQuickScanner(quickScanner, browser).scanner
  /\ browser' = closeQuickScanner(quickScanner, browser).browser
  /\ quickState' = resetQuickState
  /\ lastCall' = [op |-> "closeModal (quick)"]
  /\ UNCHANGED <<storeVars, memo, syncVars, recordedIds, calls>>

NextDialog ==
  \/ OpenModal
  \/ HandleRegenerate
  \/ \E mode \in {"send", "receive"} : SwitchMode(mode)
  \/ \E i \in DOMAIN calls, snapshot \in SyncSnapshots, sessionId \in DialogSessions :
       PrepareSendOfferResolved(i, snapshot, sessionId)
  \/ \E i \in DOMAIN calls : PrepareSendOfferEnded(i)
  \/ \E i \in DOMAIN calls : PrepareSendOfferFailed(i)
  \/ \E raw \in DialogResponses : HandleProcessResponseBegun(raw)
  \/ \E i \in DOMAIN calls : ImportRawPublicKeyResolved(i)
  \/ \E i \in DOMAIN calls : DeriveSharedSecretResolved(i)
  \/ \E i \in DOMAIN calls : DeriveProofResolved(i)
  \/ \E i \in DOMAIN calls : DeriveAesKeyResolved(i)
  \/ \E i \in DOMAIN calls : EncryptSnapshotResolved(i)
  \/ CloseModal
  \/ \E raw \in DialogOffers : HandleProcessOfferBegun(raw)
  \/ \E i \in DOMAIN calls : HandleProcessOfferResolved(i)
  \/ OpenQuickModal
  \/ HandleQuickRegenerate
  \/ \E i \in DOMAIN calls, drawn \in {Passphrase1, Passphrase2} : QuickExportResolved(i, drawn)
  \/ \E i \in DOMAIN calls : QuickEncodeResolved(i)
  \/ \E i \in DOMAIN calls : PrepareQuickBundleEnded(i)
  \/ \E i \in DOMAIN calls : PrepareQuickBundleFailed(i)
  \/ CloseQuickModal

SpecDialog == Init /\ [][NextDialog]_vars

\* The data envelope handleProcessResponse builds from a session and a
\* response in one piece
BuiltFrom(send, raw) ==
  handleProcessResponse([send EXCEPT !.finalPayload = EmptyText, !.code = <<>>],
                        raw, KeySalt, Iv)

\* C29: whenever sendState.finalPayload is not empty, it is the data envelope
\* built from the key pair, the session ID and the snapshot that sendState
\* holds, also when the offer was regenerated or the mode switched while
\* handleProcessResponse was suspended at an await.
C29_FinalPayloadOfCurrentSession ==
  sendState.finalPayload # EmptyText =>
    \E raw \in DialogResponses :
      /\ BuiltFrom(sendState, raw).status = "Ready to share encrypted bundle."
      /\ BuiltFrom(sendState, raw).send.finalPayload = sendState.finalPayload

\* C30: while a dialog is closed, its session material is empty: sendState
\* and receiveState of the paired dialog, quickState of the quick dialog,
\* also when a prepareSendOffer, prepareQuickBundle, handleProcessOffer or
\* handleProcessResponse call was in flight at closeModal and ends later.
C30_ClosedDialogsHoldNothing ==
  /\ syncUi.modalHidden =>
       (sendState = resetSendState /\ receiveState = resetReceiveState)
  /\ syncUi.quickModalHidden => quickState = resetQuickState

\* The two dialogs with the calls of prepareSendOffer and prepareQuickBundle
\* alone: every handler that starts one, and every way one proceeds or ends
NextPrepare ==
  \/ OpenModal
  \/ HandleRegenerate
  \/ \E mode \in {"send", "receive"} : SwitchMode(mode)
  \/ \E i \in DOMAIN calls, snapshot \in SyncSnapshots, sessionId \in DialogSessions :
       PrepareSendOfferResolved(i, snapshot, sessionId)
  \/ \E i \in DOMAIN calls : PrepareSendOfferEnded(i)
  \/ \E i \in DOMAIN calls : PrepareSendOfferFailed(i)
  \/ CloseModal
  \/ OpenQuickModal
  \/ HandleQuickRegenerate
  \/ \E i \in DOMAIN calls, drawn \in {Passphrase1, Passphrase2} : QuickExportResolved(i, drawn)
  \/ \E i \in DOMAIN calls : QuickEncodeResolved(i)
  \/ \E i \in DOMAIN calls : PrepareQuickBundleEnded(i)
  \/ \E i \in DOMAIN calls : PrepareQuickBundleFailed(i)
  \/ CloseQuickModal

SpecPrepare == Init /\ [][NextPrepare]_vars

\* A step of a handler that calls prepareSendOffer() / prepareQuickBundle()
CallsPrepareSendOffer ==
  \/ lastCall'.op \in {"openModal", "regenerate"}
  \/ lastCall'.op = "switchMode" /\ lastCall'.mode = "send"

CallsPrepareQuickBundle == lastCall'.op \in {"openModal (quick)", "handleQuickRegenerate"}

\* C31: at most one prepareSendOffer and at most one prepareQuickBundle is
\* in progress: the flag is set exactly while one call of the function is
\* suspended, so it is cleared when the call ends or fails; a call made while
\* the flag is set leaves the states, the flags and the running call alone.
C31_OnePrepareAtATime ==
  /\ [](/\ Len(Suspended("prepareSendOffer")) = IF syncUi.isPreparingOffer THEN 1 ELSE 0
        /\ Len(Suspended("prepareQuickBundle"))
             = IF syncUi.isPreparingQuickBundle THEN 1 ELSE 0)
  /\ [][/\ (CallsPrepareSendOffer /\ syncUi.isPreparingOffer) =>
             /\ sendState' = sendState
             /\ calls' = calls
             /\ syncUi'.isPreparingOffer
        /\ (CallsPrepareQuickBundle /\ syncUi.isPreparingQuickBundle) =>
             /\ calls' = calls
             /\ syncUi'.isPreparingQuickBundle
             /\ lastCall'.op = "handleQuickRegenerate" => quickState' = quickState]_vars

\* Regenerate was clicked while prepareSendOffer awaited renderQrCode, and
\* an earlier call has failed
C31_Witness ==
  /\ lastCall.op = "regenerate"
  /\ syncUi.isPreparingOffer
  /\ calls = <<[fn |-> "prepareSendOffer", at |-> "renderQrCode"]>>

\* C32: at most one camera stream is live at any time, and a live stream is
\* the one held in quickScannerStream, which closeQuickScanner stops; also
\* when handleQuickScan is called again before getUserMedia has resolved.
C32_OneCameraStream ==
  /\ Cardinality(browser.live) <= 1
  /\ \A stream \in browser.live : stream = quickScanner.quickScannerStream

\* C33: normalizeSite is idempotent: normalizing the site it returned
\* returns that site again.
C33_NormalizeSiteIdempotent ==
  lastCall.op = "normalizeSite" => lastCall.again = lastCall.normalized

\* C34: in compatibility mode every character of the password belongs to
\* the compatibility charset (letters, digits and !@#$%^&*()-_=+), also when
\* policyOn is true.
C34_CompatCharsetOnly ==
  (lastCall.op = "mapToPassword" /\ lastCall.generator.compatMode) =>
    \A i \in 1..Len(lastCall.password) :
      \E k \in 1..Len(CompatSymbols) :
        lastCall.password[i] \in LowerSet \cup UpperSet \cup DigitSet \cup {CompatSymbols[k]}

\* C35: importRegistrySnapshot is idempotent: importing the snapshot a
\* second time reports importedSites = 0 and importedVersions = 0 and leaves
\* every registry entry as the first import left it.
C35_ImportIdempotent ==
  lastCall.op = "import" =>
    /\ lastCall.again.importedSites = 0
    /\ lastCall.again.importedVersions = 0
    /\ lastCall.again.db.registry = lastCall.registry

\* The first import added versions to a site that had an entry
C35_Witness ==
  /\ lastCall.op = "import"
  /\ lastCall.importedVersions > 0
  /\ lastCall.grown # {}

\* All six fields of a parameters record are present and within their ranges
ParametersNormalized(parameters) ==
  \A name \in DOMAIN ParameterRanges : parameters[name] \in ParameterRanges[name]

\* C36: every version that recordRecipeUsage or importRegistrySnapshot wrote
\* to the registry or the recipe store, and every version fetchRecipes or
\* getRegistryEntry returned (they return what they leave in the stores),
\* carries all six parameters within their ranges.
C36_StoredParametersNormalized ==
  /\ \A site \in DOMAIN registryStore :
       \A i \in 1..Len(registryStore[site].versions) :
         ParametersNormalized(registryStore[site].versions[i].parameters)
  /\ \A id \in DOMAIN recipeStore : ParametersNormalized(recipeStore[id].parameters)

(***************************************************************************)
(* The migration specification: the recipe store holds what the            *)
(* single-file program saved (script.js:508-520, the same localforage      *)
(* store), under 8-character ids; the registry store did not exist         *)
(***************************************************************************)
\* The legacy record of the same recipe saved with the counter typed as 02
LegacyRecipePadded ==
  [LegacyRecipe EXCEPT !.id = [legacy8 |-> "FormC02"], !.counter = <<"0", "2">>]

LegacyRecipeG ==
  [RecipeOfForm(FormG) EXCEPT !.id = [legacy8 |-> "FormG"], !.shortId = NoShort,
                              !.parameters = MissingParameters]

\* localforage.setItem(recipeData.id, recipeData) for each record of a set
LegacyStore(records) == [id \in {r.id : r \in records} |-> CHOOSE r \in records : r.id = id]

LegacyStores ==
  {LegacyStore(records) : records \in (SUBSET {LegacyRecipe, LegacyRecipePadded, LegacyRecipeG})}

InitMigrate ==
  /\ registryStore = EmptyStore
  /\ recipeStore \in LegacyStores
  /\ lastCall = [op |-> "none"]
  /\ memo = None
  /\ sendState = resetSendState
  /\ receiveState = resetReceiveState
  /\ runStep = 0
  /\ recordedIds = EmptyStore
  /\ quickScanner = ClosedScanner
  /\ browser = IdleBrowser
  /\ calls = <<>>
  /\ syncUi = ClosedDialogs
  /\ quickState = resetQuickState

\* The id ensureRecipeIdentifiers gives a record
MigratedId(record) == ensureRecipeIdentifiers(record).id

\* A record whose id is no 64-character digest and can be recomputed
NeedsMigration(record) == ~IsDigest64(record.id) /\ IsDigest64(MigratedId(record))

\* ui.js refreshHistoryList: fetchRecipes(); lastCall keeps the keys of the
\* records that had to be migrated
RefreshHistoryList ==
  /\ recipeStore' = fetchRecipes(CurrentDb).recipes
  /\ registryStore' = fetchRecipes(CurrentDb).registry
  /\ lastCall' = [op |-> "refreshHistoryList",
                  migrated |-> {key \in DOMAIN recipeStore :
                                  NeedsMigration(recipeStore[key])}]
  /\ UNCHANGED <<memo, syncVars, recordedIds, asyncVars>>

\* The JSON files of the migration specification: exports of the legacy store
MigrateFiles == {<<LegacyRecipe>>, <<LegacyRecipePadded, LegacyRecipeG>>, <<NoShortRecipe>>}

NextMigrate ==
  \/ RefreshHistoryList
  \/ \E form \in {FormA, FormC, FormG} : HandleGenerate(form, MaxDate)
  \/ \E recipes \in MigrateFiles : HandleImportFile(recipes)
  \/ HandleClearHistory
  \/ HandleResetAppData

SpecMigrate == InitMigrate /\ [][NextMigrate]_vars

\* The ids of all registry versions of a registry store
RegistryIds(registry) ==
  UNION {{registry[site].versions[i].id : i \in 1..Len(registry[site].versions)} :
           site \in DOMAIN registry}

\* A step that ends with fetchRecipes
FetchesRecipes ==
  \/ lastCall'.op \in {"refreshHistoryList", "importRecipes"}
  \/ lastCall'.op = "generate" /\ lastCall'.ok

balloonNormalized(options) ==
  [normalizedSpace |-> IF options.spaceCost # NaN /\ options.spaceCost > 0
                       THEN Min(Max(options.spaceCost, 4), 4096) ELSE 64,
   normalizedTime |-> IF options.timeCost # NaN /\ options.timeCost > 0
                      THEN Min(Max(options.timeCost, 1), 24) ELSE 3,
   normalizedDelta |-> IF options.delta # NaN /\ options.delta > 0
                       THEN Min(Max(options.delta, 1), 8) ELSE 3]

\* toBytes(value): eight bytes, big-endian
toBytes(value) ==
  Array([i \in 1..8 |-> IF i <= 4 THEN 0 ELSE (Max(0, value) \div (256 ^ (8 - i))) % 256])

\* The number a part contributes to the mixing: its length, its first and its
\* last four bytes
PartCode(part) ==
  IF part = <<>> THEN 0
  ELSE (Len(part)
        + part[1] * 3 + part[Min(2, Len(part))] * 5
        + part[Min(3, Len(part))] * 7 + part[Min(4, Len(part))] * 11
        + part[Max(1, Len(part) - 3)] * 13 + part[Max(1, Len(part) - 2)] * 17
        + part[Max(1, Len(part) - 1)] * 19 + part[Len(part)] * 23) % 65521

RECURSIVE CombinedBytesCode(_, _)
\* combined: the parts one after the other
CombinedBytesCode(parts, acc) ==
  IF parts = <<>> THEN acc
  ELSE CombinedBytesCode(Tail(parts), (acc * 31 + PartCode(Head(parts))) % 65521)

\* hashBytes(...parts): crypto.subtle.digest(hash, combined)
hashBytes(parts) == MixBytes(8, CombinedBytesCode(parts, 17), 0, 0, 32)

\* value << 8 on a signed 32-bit value
ShiftLeft8(value) ==
  IF value % 16777216 >= 8388608
  THEN ((value % 16777216) - 16777216) * 256
  ELSE (value % 16777216) * 256

RECURSIVE IntegerifyLoop(_, _, _)
\* for (i = 0; i < length; i++) value = (value << 8) | bytes[i]
IntegerifyLoop(bytes, length, value) ==
  IF length = 0 THEN value
  ELSE IntegerifyLoop(Tail(bytes), length - 1, ShiftLeft8(value) + Head(bytes))

\* value >>> 0: the unsigned 32-bit value, as its high and low 16 bits
Unsigned(value) == [hi |-> (value \div 65536) % 65536, lo |-> value % 65536]

integerify(bytes) ==
  IF bytes = <<>> THEN Unsigned(0)
  ELSE Unsigned(IntegerifyLoop(bytes, Min(4, Len(bytes)), 0))

\* a % n of JavaScript for an unsigned 32-bit a
UnsignedRemainder(a, n) == ((a.hi % n) * (65536 % n) + (a.lo % n)) % n

\* a % n of JavaScript for a signed a: the sign of a
Remainder(a, n) == IF a >= 0 THEN a % n ELSE 0 - ((0 - a) % n)

\* A faulty variant of previousIndex: normalizedSpace is not added
previousIndexNoWrap(m, normalizedSpace) == Remainder(m - 1, normalizedSpace)

\* (m - 1 + normalizedSpace) % normalizedSpace
previousIndex(m, normalizedSpace) == Remainder(m - 1 + normalizedSpace, normalizedSpace)

\* buffer[index]; undefined (no bytes) outside the array
BufferAt(buffer, index) ==
  IF index \in 0..(Len(buffer) - 1) THEN buffer[index + 1] ELSE <<>>

passwordBytes == Array([i \in 1..Len(Secret1) |-> CharCode(Secret1[i])])
saltBytes == Array([i \in 1..Len(SiteFb) |-> CharCode(SiteFb[i])])

\* The cost options handed to balloon: missing, zero, negative, below, within
\* and above each range
BalloonOptions ==
  [spaceCost : {NaN, 0, 3, 4, 5, 4097}, timeCost : {NaN, 0 - 1, 1, 2, 25}, delta : {NaN, 0, 1, 9}]

\* The options of the calls that are followed to their end
BalloonRuns ==
  {[spaceCost |-> 3, timeCost |-> 1, delta |-> 1],
   [spaceCost |-> 5, timeCost |-> 2, delta |-> 9],
   [spaceCost |-> 4, timeCost |-> 25, delta |-> NaN],
   [spaceCost |-> NaN, timeCost |-> 0 - 1, delta |-> 0]}

\* balloon up to its first await: the clamps, new Array(normalizedSpace)
BalloonBegun(options) ==
  /\ calls = <<>>
  /\ With(balloonNormalized(options), LAMBDA normalized :
       /\ calls' = IF options \in BalloonRuns
                   THEN <<[fn |-> "balloon", at |-> "expand", options |-> options,
                           normalizedSpace |-> normalized.normalizedSpace,
                           normalizedTime |-> normalized.normalizedTime,
                           normalizedDelta |-> normalized.normalizedDelta,
                           t |-> 0, m |-> 0, j |-> 0,
                           buffer |-> [index \in 1..normalized.normalizedSpace |-> <<>>],
                           mixSeed |-> <<>>]>>
                   ELSE calls
       /\ lastCall' = [op |-> "balloon", at |-> "begin", options |-> options,
                       normalized |-> normalized, followed |-> options \in BalloonRuns])
  /\ UNCHANGED <<storeVars, memo, syncVars, recordedIds, quickScanner, browser, uiVars>>

\* What a resolved hashBytes leaves: the call goes on, or returns, or has
\* thrown on reading outside the buffer
BalloonSettled(i, at, used, seed, next) ==
  LET inside == used \subseteq 0..(calls[i].normalizedSpace - 1)
      returns == inside /\ next.at = "return"
  IN  /\ calls' = IF inside /\ ~returns THEN [calls EXCEPT ![i] = next] ELSE RemoveAt(calls, i)
      /\ lastCall' = [op |-> "balloon", at |-> at, options |-> calls[i].options,
                      used |-> used,
                      normalizedSpace |-> calls[i].normalizedSpace,
                      mixSeed |-> seed, integerified |-> integerify(seed),
                      threw |-> ~inside,
                      buffer |-> IF returns THEN next.buffer ELSE <<>>,
                      result |-> IF returns
                                 THEN bufferToHex(BufferAt(next.buffer, next.normalizedSpace - 1))
                                 ELSE <<>>]
      /\ UNCHANGED <<storeVars, memo, syncVars, recordedIds, quickScanner, browser, uiVars>>

\* buffer[0] = hashBytes(toBytes(0), passwordBytes, saltBytes) and the loop
\* buffer[m] = hashBytes(toBytes(m), buffer[m - 1])
ExpandResolved(i) ==
  /\ calls[i].fn = "balloon"
  /\ calls[i].at = "expand"
  /\ \E c \in {calls[i]} :
       \E digest \in {IF c.m = 0 THEN hashBytes(<<toBytes(0), passwordBytes, saltBytes>>)
                      ELSE hashBytes(<<toBytes(c.m), BufferAt(c.buffer, c.m - 1)>>)} :
         BalloonSettled(i, "expand", IF c.m = 0 THEN {0} ELSE {c.m - 1, c.m}, <<>>,
           IF c.m + 1 < c.normalizedSpace
           THEN [c EXCEPT !.buffer[c.m + 1] = digest, !.m = c.m + 1]
           ELSE [c EXCEPT !.buffer[c.m + 1] = digest, !.m = 0, !.at = "mixPrev"])

\* buffer[m] = hashBytes(counter, prev, buffer[m]) of the first inner loop
MixPrevResolved(i) ==
  /\ calls[i].fn = "balloon"
  /\ calls[i].at = "mixPrev"
  /\ \E c \in {calls[i]} :
       \E prev \in {previousIndex(c.m, c.normalizedSpace)} :
         \E digest \in {hashBytes(<<toBytes(c.t * c.normalizedSpace + c.m),
                                    BufferAt(c.buffer, prev), BufferAt(c.buffer, c.m)>>)} :
           BalloonSettled(i, "mixPrev", {prev, c.m}, <<>>,
             IF c.m + 1 < c.normalizedSpace
             THEN [c EXCEPT !.buffer[c.m + 1] = digest, !.m = c.m + 1]
             ELSE [c EXCEPT !.buffer[c.m + 1] = digest, !.m = 0, !.j = 0,
                            !.at = "mixSeed"])

\* mixSeed = hashBytes(toBytes(t), toBytes(m), toBytes(j), buffer[m])
MixSeedResolved(i) ==
  /\ calls[i].fn = "balloon"
  /\ calls[i].at = "mixSeed"
  /\ \E c \in {calls[i]} :
       BalloonSettled(i, "mixSeed", {c.m}, <<>>,
         [c EXCEPT !.at = "mixOther",
                   !.mixSeed = hashBytes(<<toBytes(c.t), toBytes(c.m), toBytes(c.j),
                                           BufferAt(c.buffer, c.m)>>)])

\* otherIndex = integerify(mixSeed) % normalizedSpace; buffer[m] =
\* hashBytes(toBytes(t), toBytes(m), toBytes(j), prev, buffer[otherIndex]);
\* after the last round, return bufferToHex(buffer[normalizedSpace - 1])
MixOtherResolved(i) ==
  /\ calls[i].fn = "balloon"
  /\ calls[i].at = "mixOther"
  /\ \E c \in {calls[i]} :
       \E otherIndex \in {UnsignedRemainder(integerify(c.mixSeed), c.normalizedSpace)} :
         \E prev \in {previousIndex(c.m, c.normalizedSpace)} :
           \E digest \in {hashBytes(<<toBytes(c.t), toBytes(c.m), toBytes(c.j),
                                      BufferAt(c.buffer, prev),
                                      BufferAt(c.buffer, otherIndex)>>)} :
             BalloonSettled(i, "mixOther", {otherIndex, prev, c.m}, c.mixSeed,
               IF c.j + 1 < c.normalizedDelta
               THEN [c EXCEPT !.buffer[c.m + 1] = digest, !.j = c.j + 1, !.at = "mixSeed"]
               ELSE IF c.m + 1 < c.normalizedSpace
               THEN [c EXCEPT !.buffer[c.m + 1] = digest, !.m = c.m + 1, !.j = 0,
                              !.at = "mixSeed"]
               ELSE IF c.t + 1 < c.normalizedTime
               THEN [c EXCEPT !.buffer[c.m + 1] = digest, !.t = c.t + 1, !.m = 0, !.j = 0,
                              !.at = "mixPrev"]
               ELSE [c EXCEPT !.buffer[c.m + 1] = digest, !.at = "return"])

NextBalloon ==
  \/ \E options \in BalloonOptions \cup BalloonRuns : BalloonBegun(options)
  \/ \E i \in DOMAIN calls : ExpandResolved(i)
  \/ \E i \in DOMAIN calls : MixPrevResolved(i)
  \/ \E i \in DOMAIN calls : MixSeedResolved(i)
  \/ \E i \in DOMAIN calls : MixOtherResolved(i)

SpecBalloon == Init /\ [][NextBalloon]_vars

\* C38: balloon works with spaceCost in 4..4096, timeCost in 1..24 and delta
\* in 1..8; integerify yields the unsigned 32-bit value of the first four
\* digest bytes read big-endian; every buffer index used lies in
\* 0..spaceCost-1; the result is taken from buffer[spaceCost-1].
C38_BalloonWithinBounds ==
  /\ (lastCall.op = "balloon" /\ lastCall.at = "begin") =>
       /\ lastCall.normalized.normalizedSpace \in 4..4096
       /\ lastCall.normalized.normalizedTime \in 1..24
       /\ lastCall.normalized.normalizedDelta \in 1..8
  /\ \A i \in DOMAIN calls :
       calls[i].fn = "balloon" =>
         /\ calls[i].normalizedSpace \in 4..4096
         /\ calls[i].normalizedTime \in 1..24
         /\ calls[i].normalizedDelta \in 1..8
         /\ Len(calls[i].buffer) = calls[i].normalizedSpace
  /\ (lastCall.op = "balloon" /\ lastCall.at # "begin") =>
       /\ lastCall.used \subseteq 0..(lastCall.normalizedSpace - 1)
       /\ ~lastCall.threw
       /\ lastCall.at = "mixOther" =>
            /\ lastCall.integerified.hi = lastCall.mixSeed[1] * 256 + lastCall.mixSeed[2]
            /\ lastCall.integerified.lo = lastCall.mixSeed[3] * 256 + lastCall.mixSeed[4]
            /\ lastCall.integerified.hi \in 0..65535
            /\ lastCall.integerified.lo \in 0..65535
       /\ lastCall.result # <<>> =>
            lastCall.result = bufferToHex(lastCall.buffer[lastCall.normalizedSpace])

\* A call whose delta was cut from 9 to 8 has returned its result, read at
\* the last index of a buffer of five
C38_Witness ==
  /\ lastCall.op = "balloon"
  /\ lastCall.at = "mixOther"
  /\ lastCall.result # <<>>
  /\ lastCall.options.delta = 9
  /\ lastCall.normalizedSpace = 5
  /\ 4 \in lastCall.used

\* A mixing step whose seed begins with a byte above 127: the signed value is
\* negative before >>> 0
C38_SignedSeed ==
  /\ lastCall.op = "balloon"
  /\ lastCall.at = "mixOther"
  /\ lastCall.mixSeed[1] > 127
  /\ lastCall.integerified.hi >= 32768

\* The clamps have cut a call's options from above
C38_Clamped ==
  /\ lastCall.op = "balloon"
  /\ lastCall.at = "begin"
  /\ lastCall.options.spaceCost = 4097
  /\ lastCall.normalized.normalizedSpace = 4096

RECURSIVE DecimalValue(_, _)
\* The number a string of decimal digits denotes
DecimalValue(s, acc) ==
  IF s = <<>> THEN acc
  ELSE DecimalValue(Tail(s), acc * 10 + (IndexOf(Digits, Head(s)) - 1))

\* C39: derivePairingCode returns exactly 8 decimal digits, the big-endian
\* value of the 4 derived bytes modulo 10^8 padded with zeros on the left;
\* handleImport accepts a typed code only if it is exactly 8 digits once
\* its whitespace is removed.
C39_PairingCodeEightDigits ==
  lastCall.op = "pairingCode" =>
    /\ Len(lastCall.code) = 8
    /\ \A i \in 1..Len(lastCall.code) : lastCall.code[i] \in DigitSet
    /\ DecimalValue(lastCall.code, 0) = Mod100000000(lastCall.material, 0)
    /\ lastCall.material[1] = 0 =>
         DecimalValue(lastCall.code, 0) =
           lastCall.material[2] * 65536 + lastCall.material[3] * 256 + lastCall.material[4]
    /\ lastCall.status = "" =>
         /\ Len(SelectSeq(lastCall.typed, LAMBDA ch : ch # " ")) = 8
         /\ \A i \in 1..Len(lastCall.typed) : lastCall.typed[i] \in DigitSet \cup {" "}

\* A code that needed padding was typed with a blank in it and accepted
C39_Witness ==
  /\ lastCall.op = "pairingCode"
  /\ lastCall.material = <<0, 0, 5, 245>>
  /\ lastCall.code = <<"0", "0", "0", "0", "1", "5", "2", "5">>
  /\ lastCall.typed = <<"0", "0", "0", "0", " ", "1", "5", "2", "5">>
  /\ lastCall.status = ""

=============================================================================
